---- MODULE Spec2Model ----
(***************************************************************************)
(* Model of the SemDomCrowdin tools: compare_xlf.py (snapshot resolution   *)
(* and differencing), find_identical_translations.py, comma_lists.py,      *)
(* extract_xlf.py and sort_comparisons.py.                                 *)
(*                                                                         *)
(* Representation of Python values:                                        *)
(*   - a text (element content) is a sequence of one-character strings;    *)
(*   - an identifier or a tag is a sequence of tokens chosen so that every *)
(*     suffix / substring the code tests for is a whole token, e.g.        *)
(*     "1_Desc_0" is <<"1", "_Desc", "_0">> and "{urn:x}group" is          *)
(*     <<"{", "urn:x", "}", "group">>;                                     *)
(*   - attribute values compared only for equality (state, approved,       *)
(*     translate) are TLA+ strings, None standing for a missing attribute; *)
(*   - a missing id / resname attribute is NoAttr;                         *)
(*   - an element is a record; NoElem is the result of a find() that       *)
(*     matched nothing.                                                    *)
(***************************************************************************)
EXTENDS Integers, Sequences, FiniteSets, TLC

VARIABLES
    prog,           \* the program that runs
    pc,             \* position of the running program
    file1,          \* compare_xlf: the older input file
    file2,          \* compare_xlf: the newer input file
    compare_type,   \* compare_xlf: "name" or "description"
    include_state,  \* compare_xlf: the -s flag
    data1,          \* compare_files: snapshot mapping of file1
    order1,         \* compare_files: group order of file1
    data2,          \* compare_files: snapshot mapping of file2
    order2,         \* compare_files: group order of file2
    changes,        \* compare_files: the ChangeRecords found so far
    emitted,        \* history: the group id each ChangeRecord came from
    k,              \* compare_files: index of the group of order2 being visited
    xliff_file,     \* find_identical_translations: the input file
    trans_units,    \* find_identical_translations: the units found in the file
    results,        \* find_identical_translations: the records found so far
    i,              \* find_identical_translations: index of the unit being visited

    comma_file,         \* comma_lists: the input file
    all_trans_units,    \* comma_lists: the units found in the file
    increased_results,  \* comma_lists: target has more items than source
    decreased_results,  \* comma_lists: target has fewer items than source
    unit_index,         \* comma_lists: index of the unit being visited
    extract_file,       \* extract_xlf: the input file
    pattern_type,       \* extract_xlf: what to extract
    target_groups,      \* extract_data: the semantic domain groups of the file
    extract_results,    \* extract_data: the rows found so far ("results")
    missing_count,      \* extract_data: groups that lacked the desired element
    group_index,        \* extract_data: index of the group being visited
    input_file,         \* parse_xlf_file: the input file
    parse_groups,       \* parse_xlf_file: target_groups, the semantic domain groups
    parse_data,         \* parse_xlf_file: data, group ids to group_data
    parse_order,        \* parse_xlf_file: group_order
    parse_index,        \* parse_xlf_file: index of the group being visited
    sort_file,          \* sort_comparisons: the lines of the input file
    col1,               \* sort_comparisons: first column to display (1-based)
    col2,               \* sort_comparisons: second column to display (1-based)
    header,             \* sort_comparisons: the cells of the header line
    sort_data,          \* sort_comparisons: data, the rows read from the file
    group_chars,        \* sort_comparisons: shortcut character -> group name
    row_groups,         \* sort_comparisons: row index -> set of group names
    rows_processed,     \* sort_comparisons: rows classified so far
    row_index,          \* sort_comparisons: i, the (0-based) row being classified
    choice,             \* get_user_choice: the line answered at the group prompt
    new_group,          \* get_user_choice: the name answered at the name prompt
    written             \* sort_comparisons: the lines of the output file, or None

identVars == <<xliff_file, trans_units, results, i>>

commaVars == <<comma_file, all_trans_units, increased_results, decreased_results,
              unit_index>>

diffVars == <<file1, file2, compare_type, include_state, data1, order1,
              data2, order2, changes, emitted, k>>

extractVars == <<extract_file, pattern_type, target_groups, extract_results,
                 missing_count, group_index>>

parseVars == <<input_file, parse_groups, parse_data, parse_order, parse_index>>

sortVars == <<sort_file, col1, col2, header, sort_data, group_chars, row_groups,
             rows_processed, row_index, choice, new_group, written>>

vars == <<prog, pc, diffVars, identVars, commaVars, extractVars, parseVars,
          sortVars>>

\* what a program leaves alone: the variables of the other programs
notDiff == <<identVars, commaVars, extractVars, parseVars, sortVars>>
notIdent == <<diffVars, commaVars, extractVars, parseVars, sortVars>>
notComma == <<diffVars, identVars, extractVars, parseVars, sortVars>>
notExtract == <<diffVars, identVars, commaVars, parseVars, sortVars>>
notParse == <<diffVars, identVars, commaVars, extractVars, sortVars>>
notSort == <<diffVars, identVars, commaVars, extractVars, parseVars>>

----------------------------------------------------------------------------
(* Python string and list primitives                                       *)

None == "None"
NoAttr == <<"None">>
Whitespace == {" ", "\t", "\n"}

\* s.endswith(suffix)
EndsWith(s, suffix) ==
    /\ Len(s) >= Len(suffix)
    /\ SubSeq(s, Len(s) - Len(suffix) + 1, Len(s)) = suffix

\* s.startswith(prefix)
StartsWith(s, prefix) ==
    /\ Len(s) >= Len(prefix)
    /\ SubSeq(s, 1, Len(prefix)) = prefix

\* sub in s
Contains(s, sub) ==
    \E j \in 0..(Len(s) - Len(sub)) : SubSeq(s, j + 1, j + Len(sub)) = sub

\* s.lstrip()
RECURSIVE LStrip(_)
LStrip(s) ==
    IF s # <<>> /\ Head(s) \in Whitespace THEN LStrip(Tail(s)) ELSE s

\* s.rstrip()
RECURSIVE RStrip(_)
RStrip(s) ==
    IF s # <<>> /\ s[Len(s)] \in Whitespace
    THEN RStrip(SubSeq(s, 1, Len(s) - 1))
    ELSE s

\* s.strip()
Strip(s) == RStrip(LStrip(s))

\* element.get(name, default) for an identifier attribute (id, resname)
GetId(attr, default) == IF attr = NoAttr THEN default ELSE attr

\* element.get(name, default) for a plain attribute (state, approved, translate)
GetStr(attr, default) == IF attr = None THEN default ELSE attr

\* the elements of a list, as a set
Range(s) == {s[j] : j \in 1..Len(s)}

----------------------------------------------------------------------------
(* The document model (xml.etree.ElementTree)                              *)

NoElem == [present |-> FALSE, state |-> None, text |-> <<>>, rest |-> <<>>]

\* A <source>/<target> element: its state attribute, its leading text
\* (element.text) and the rest of its mixed content in document order (the text
\* inside inline markup and the tails).
Elem(state, text, rest) ==
    [present |-> TRUE, state |-> state, text |-> text, rest |-> rest]

Node(tag, id, resname, approved, translate, source, target, kids) ==
    [tag |-> tag, id |-> id, resname |-> resname, approved |-> approved,
     translate |-> translate, source |-> source, target |-> target,
     kids |-> kids]

\* the qualified tag ElementTree gives an element of namespace ns
QTag(ns, local) == IF ns = "" THEN <<local>> ELSE <<"{", ns, "}", local>>

\* ''.join(element.itertext())
IterText(element) == element.text \o element.rest

\* all descendants of a node in document order: what './/' ranges over
RECURSIVE Descendants(_)
RECURSIVE DescendantsOfKids(_, _)
DescendantsOfKids(kids, j) ==
    IF j > Len(kids) THEN <<>>
    ELSE <<kids[j]>> \o Descendants(kids[j]) \o DescendantsOfKids(kids, j + 1)
Descendants(node) == DescendantsOfKids(node.kids, 1)

\* node.findall('.//' + tag)
FindAll(node, tag) == SelectSeq(Descendants(node), LAMBDA n : n.tag = tag)

\* extract_text(element)
ExtractText(element) ==
    IF ~element.present THEN <<>> ELSE Strip(IterText(element))

----------------------------------------------------------------------------
(* compare_xlf.py: parse_xlf_file                                          *)

\* root.tag.startswith('{')
UseNs(root) == root.tag # <<>> /\ root.tag[1] = "{"

\* the tag a search for 'xliff:<local>' (or for '<local>' when the document has
\* no namespace) matches
SearchTag(root, local) ==
    IF UseNs(root) THEN <<"{", root.tag[2], "}", local>> ELSE <<local>>

\* a marker test that looks at every descendant of the group
HasGuidBelow(group) ==
    \E j \in 1..Len(Descendants(group)) :
        Contains(Descendants(group)[j].tag, <<"guid">>)

\* the has_guid loop: some direct child's tag contains 'guid'
HasGuid(group) ==
    \E j \in 1..Len(group.kids) : Contains(group.kids[j].tag, <<"guid">>)

\* the semantic domain groups of a document, in document order
TargetGroups(root) == SelectSeq(FindAll(root, SearchTag(root, "group")), HasGuid)

\* a trans_units list that does not leave out the _SubPos groups
RECURSIVE EffectiveUnitsWithSubPos(_, _, _)
EffectiveUnitsWithSubPos(root, children, j) ==
    IF j > Len(children) THEN <<>>
    ELSE LET child == children[j]
             here ==
                 IF EndsWith(child.tag, <<"trans-unit">>)
                 THEN <<child>>
                 ELSE IF EndsWith(child.tag, <<"group">>)
                 THEN FindAll(child, SearchTag(root, "trans-unit"))
                 ELSE <<>>
         IN  here \o EffectiveUnitsWithSubPos(root, children, j + 1)

\* a trans_units list that looks one level into a child group and no deeper
RECURSIVE EffectiveUnitsOneLevel(_, _, _)
EffectiveUnitsOneLevel(root, children, j) ==
    IF j > Len(children) THEN <<>>
    ELSE LET child == children[j]
             child_id == GetId(child.id, <<>>)
             here ==
                 IF EndsWith(child.tag, <<"group">>) /\ Contains(child_id, <<"_SubPos">>)
                 THEN <<>>
                 ELSE IF EndsWith(child.tag, <<"trans-unit">>)
                 THEN <<child>>
                 ELSE IF EndsWith(child.tag, <<"group">>)
                 THEN SelectSeq(child.kids,
                                LAMBDA n : n.tag = SearchTag(root, "trans-unit"))
                 ELSE <<>>
         IN  here \o EffectiveUnitsOneLevel(root, children, j + 1)

\* the trans_units list of one group: direct trans-units, and the trans-units
\* found below every direct child group that is not a _SubPos group
RECURSIVE EffectiveUnits(_, _, _)
EffectiveUnits(root, children, j) ==
    IF j > Len(children) THEN <<>>
    ELSE LET child == children[j]
             child_id == GetId(child.id, <<>>)
             here ==
                 IF EndsWith(child.tag, <<"group">>) /\ Contains(child_id, <<"_SubPos">>)
                 THEN <<>>
                 ELSE IF EndsWith(child.tag, <<"trans-unit">>)
                 THEN <<child>>
                 ELSE IF EndsWith(child.tag, <<"group">>)
                 THEN FindAll(child, SearchTag(root, "trans-unit"))
                 ELSE <<>>
         IN  here \o EffectiveUnits(root, children, j + 1)

EmptyGroupData ==
    [abbr |-> <<>>, name_source |-> <<>>, name_target |-> <<>>,
     name_target_state |-> "", desc_source |-> <<>>, desc_target |-> <<>>,
     desc_target_state |-> ""]

\* a target text recorded whatever the state is
RecordedTargetLiteral(target_elem, target_state) == ExtractText(target_elem)

\* target text as parse_xlf_file records it: empty under 'needs-translation'
RecordedTarget(target_elem, target_state) ==
    IF target_state = "needs-translation" THEN <<>> ELSE ExtractText(target_elem)

\* a state that is not empty for a unit without target element
TargetStateOfAbsent(target_elem) ==
    IF target_elem.present THEN GetStr(target_elem.state, "") ELSE "None"

\* target_elem.get('state', '') if target_elem is not None else ''
TargetState(target_elem) ==
    IF target_elem.present THEN GetStr(target_elem.state, "") ELSE ""

\* one round of the loop over trans_units: dispatch on the id suffix
ClassifyUnit(group_data, trans_unit) ==
    LET unit_id == GetId(trans_unit.id, <<>>)
        source_elem == trans_unit.source
        target_elem == trans_unit.target
        target_state == TargetState(target_elem)
    IN  IF EndsWith(unit_id, <<"_Abbr">>)
        THEN [group_data EXCEPT !.abbr = ExtractText(source_elem)]
        ELSE IF EndsWith(unit_id, <<"_Name">>)
        THEN [group_data EXCEPT
                 !.name_source = ExtractText(source_elem),
                 !.name_target_state = target_state,
                 !.name_target = RecordedTarget(target_elem, target_state)]
        ELSE IF EndsWith(unit_id, <<"_Desc", "_0">>)
        THEN [group_data EXCEPT
                 !.desc_source = ExtractText(source_elem),
                 !.desc_target_state = target_state,
                 !.desc_target = RecordedTarget(target_elem, target_state)]
        ELSE group_data

RECURSIVE ResolveUnits(_, _, _)
ResolveUnits(group_data, units, j) ==
    IF j > Len(units) THEN group_data
    ELSE ResolveUnits(ClassifyUnit(group_data, units[j]), units, j + 1)

\* the group_data of one semantic domain group
ResolveGroup(root, group) ==
    ResolveUnits(EmptyGroupData, EffectiveUnits(root, group.kids, 1), 1)

\* an assignment that keeps the value of a key the mapping already has
DictSetOnce(dict, key, value) ==
    [x \in (DOMAIN dict) \cup {key} |-> IF x \in DOMAIN dict THEN dict[x] ELSE value]

\* data[key] = value
DictSet(dict, key, value) ==
    [x \in (DOMAIN dict) \cup {key} |-> IF x = key THEN value ELSE dict[x]]

EmptyDict == [x \in {} |-> EmptyGroupData]

RECURSIVE ResolveGroups(_, _, _, _, _)
ResolveGroups(root, groups, j, data, group_order) ==
    IF j > Len(groups) THEN [data |-> data, group_order |-> group_order]
    ELSE LET group_id == GetId(groups[j].id, <<>>)
         IN  ResolveGroups(root, groups, j + 1,
                           DictSet(data, group_id, ResolveGroup(root, groups[j])),
                           Append(group_order, group_id))

\* parse_xlf_file(input_file): the pair (data, group_order)
ParseXlfFile(root) == ResolveGroups(root, TargetGroups(root), 1, EmptyDict, <<>>)

----------------------------------------------------------------------------
(* Documents given to compare_xlf                                          *)

MaxGroups == 2

XliffNs == "urn:oasis:names:tc:xliff:document:1.2"
SilNs == "urn:sil"

Unit(ns, id, source, target) ==
    Node(QTag(ns, "trans-unit"), id, NoAttr, None, None, source, target, <<>>)

Group(ns, id, kids) ==
    Node(QTag(ns, "group"), id, NoAttr, None, None, NoElem, NoElem, kids)

GuidNode == Node(QTag(SilNs, "guid"), NoAttr, NoAttr, None, None, NoElem, NoElem, <<>>)

Root(ns, kids) ==
    Node(QTag(ns, "xliff"), NoAttr, NoAttr, None, None, NoElem, NoElem, kids)

\* The target elements a domain's _Name and _Desc_0 units take in the three
\* versions of a domain.  Over the three versions every pair differs, for each
\* field, in content only, in state only, or in both.
NameTarget(v) ==
    CASE v = 1 -> Elem("translated", <<>>, <<>>)
      [] v = 2 -> Elem("translated", <<" ", "x">>, <<>>)
      [] v = 3 -> Elem("needs-translation", <<"x">>, <<>>)

DescTarget(v) ==
    CASE v = 1 -> Elem("needs-translation", <<"p">>, <<" ", "q">>)
      [] v = 2 -> Elem("translated", <<>>, <<>>)
      [] v = 3 -> Elem("translated", <<"p">>, <<" ", "q", " ">>)

\* The source texts of a domain's _Abbr, _Name and _Desc_0 units: each differs
\* between version 1 and the later versions.
DomainAbbr(g, v) == IF v = 1 THEN <<g>> ELSE <<g, "'">>
NameSource(v) == IF v = 1 THEN <<"n">> ELSE <<"m">>
DescSource(v) == IF v = 1 THEN <<"d">> ELSE <<"e">>

\* the _Qs group of a domain: versions 1 and 3 have one question
QuestionGroups(ns, g, v) ==
    IF v = 2 THEN <<>>
    ELSE << Group(ns, <<g, "_Qs">>,
              << Unit(ns, <<g, "_Qs_", "0", "_Q">>,
                      Elem(None, <<"q">>, <<>>), Elem("translated", <<"w">>, <<>>)) >>) >>

\* A semantic domain group as Crowdin exports it: the guid marker, the _Abbr and
\* _Name units, the _Desc group with its _Desc_0 unit, a _SubPos group and the _Qs group.
DomainGroup(ns, g, v) ==
    Group(ns, <<g>>,
      << GuidNode,
         Unit(ns, <<g, "_Abbr">>, Elem(None, DomainAbbr(g, v), <<>>),
              Elem("final", <<g>>, <<>>)),
         Unit(ns, <<g, "_Name">>, Elem(None, NameSource(v), <<>>), NameTarget(v)),
         Group(ns, <<g, "_Desc">>,
           << Unit(ns, <<g, "_Desc", "_0">>, Elem(None, DescSource(v), <<>>),
                   DescTarget(v)) >>),
         Group(ns, <<g, "_SubPos">>,
           << Unit(ns, <<g, "_SubPos", "_0", "_Name">>,
                   Elem(None, <<"s">>, <<>>), Elem("final", <<"z">>, <<>>)) >>) >>
      \o QuestionGroups(ns, g, v))

GroupIds == {"1", "2"}
Versions == {1, 2, 3}

\* all sequences over S of length at most n
SeqsUpTo(S, n) == UNION {[1..m -> S] : m \in 0..n}

\* An input file of compare_xlf is named by the domains it holds, in order, each
\* a pair <<group id, version>>.
DiffFiles == SeqsUpTo(GroupIds \X Versions, MaxGroups)

\* ET.parse(input_file).getroot()
Document(file) ==
    Root(XliffNs, [j \in 1..Len(file) |-> DomainGroup(XliffNs, file[j][1], file[j][2])])

----------------------------------------------------------------------------
(* Documents of any shape, given to parse_xlf_file and extract_data        *)

MaxParts == 2

OtherNs == "urn:other"

\* an element that is neither a group nor a trans-unit: <file>, <body>, <note>
Wrapper(ns, local, kids) ==
    Node(QTag(ns, local), NoAttr, NoAttr, None, None, NoElem, NoElem, kids)

\* an element of the sil namespace whose tag holds 'guid' inside a longer name
LongGuidNode ==
    Node(<<"{", SilNs, "}", "my", "guid", "x">>, NoAttr, NoAttr, None, None,
         NoElem, NoElem, <<>>)

\* The children that mark a group, by the way the marker is placed: a guid
\* child, a child whose tag contains 'guid', a guid found only below a child
\* that is no group, or no marker at all.
Markers == {"guid", "contains", "deep", "none"}

MarkerKids(ns, marker) ==
    CASE marker = "guid" -> <<GuidNode>>
      [] marker = "contains" -> <<LongGuidNode>>
      [] marker = "deep" -> <<Wrapper(ns, "note", <<GuidNode>>)>>
      [] marker = "none" -> <<>>

\* The j-th child subtree of a group with id g.  Every unit carries texts that
\* name its part and position, so that a resolved field tells the unit it was
\* taken from.
Part(ns, g, kind, j) ==
    LET src(c) == Elem(None, <<c, ToString(j)>>, <<>>)
        tgt(c) == Elem("translated", <<c, ToString(j)>>, <<>>)
    IN  CASE kind = "abbr" -> Unit(ns, <<g, "_Abbr">>, src("a"), tgt("A"))
          [] kind = "name" -> Unit(ns, <<g, "_Name">>, src("n"), tgt("N"))
          [] kind = "barename" -> Unit(ns, <<g, "_Name">>, src("m"), NoElem)
          [] kind = "desc" ->
               Group(ns, <<g, "_Desc">>,
                 << Unit(ns, <<g, "_Desc", "_0">>, src("d"), tgt("D")) >>)
          [] kind = "deepdesc" ->
               Group(ns, <<g, "_X">>,
                 << Group(ns, <<g, "_X", "_SubPos">>,
                      << Unit(ns, <<g, "_Desc", "_0">>, src("e"), NoElem) >>) >>)
          [] kind = "subpos" ->
               Group(ns, <<g, "_SubPos">>,
                 << Unit(ns, <<g, "_SubPos", "_Abbr">>, src("x"), tgt("X")),
                    Unit(ns, <<g, "_SubPos", "_0", "_Name">>, src("y"), tgt("Y")),
                    Group(ns, <<g, "_SubPos", "_Desc">>,
                      << Unit(ns, <<g, "_SubPos", "_Desc", "_0">>, src("z"), tgt("Z")),
                         Unit(ns, <<g, "_SubPos", "_Qs_", "1", "_Q">>,
                              src("w"), tgt("W")) >>) >>)
          [] kind = "nestedabbr" ->
               Group(ns, <<g, "_Desc">>,
                 << Unit(ns, <<g, "_Abbr">>, src("b"), tgt("B")) >>)
          [] kind = "qs" ->
               Group(ns, <<g, "_Qs">>,
                 << Unit(ns, <<g, "_Qs_", "0", "_Q">>, src("q"), tgt("Q")),
                    Unit(ns, <<g, "_Qs_", "12", "_Q">>, src("r"), tgt("R")) >>)
          [] kind = "inner" ->
               Group(ns, <<g, "_In">>,
                 << Group(ns, <<g, ".1">>,
                      << GuidNode,
                         Unit(ns, <<g, ".1", "_Name">>, src("i"), tgt("I")) >>) >>)
          [] kind = "subdomain" ->
               Group(ns, <<g, "_SubPos">>,
                 << Group(ns, <<g, ".2">>,
                      << GuidNode,
                         Unit(ns, <<g, ".2", "_Abbr">>, src("u"), tgt("U")),
                         Unit(ns, <<g, ".2", "_Name">>, src("v"), tgt("V")) >>) >>)
          [] kind = "other" ->
               Unit(ns, NoAttr, src("o"), tgt("O"))

PartKinds ==
    {"abbr", "name", "barename", "desc", "deepdesc", "subpos", "nestedabbr",
     "qs", "inner", "subdomain", "other"}

\* a group with id g made of a marker and a sequence of parts
ShapeGroup(ns, g, marker, parts) ==
    Group(ns, <<g>>,
          MarkerKids(ns, marker) \o [j \in 1..Len(parts) |-> Part(ns, g, parts[j], j)])

\* What names an input file: its layout ("domains": domains as Crowdin exports
\* them; "shape": one group of a given marker and parts inside <file><body>),
\* the namespace of the document, and the domains or the marker and parts.
DomainFiles ==
    {[layout |-> "domains", ns |-> XliffNs, marker |-> "guid",
      domains |-> f, parts |-> <<>>] : f \in DiffFiles}

\* a marked group of every make of up to MaxParts parts
PartFiles ==
    {[layout |-> "shape", ns |-> XliffNs, marker |-> "guid",
      domains |-> <<>>, parts |-> ps] : ps \in SeqsUpTo(PartKinds, MaxParts)}

\* some bodies of three parts, under every marker and in every namespace
MarkerBodies ==
    { <<"abbr", "name", "desc">>, <<"name", "inner", "subdomain">>,
      <<"name", "subpos", "desc">>, <<"abbr", "abbr", "name">>,
      <<"nestedabbr", "qs", "deepdesc">> }

Namespaces == {XliffNs, OtherNs, ""}

MarkerFiles ==
    {[layout |-> "shape", ns |-> ns, marker |-> mk,
      domains |-> <<>>, parts |-> ps] :
        ns \in Namespaces, mk \in Markers, ps \in MarkerBodies}

ResolveFiles == DomainFiles \cup PartFiles \cup MarkerFiles

NoFile ==
    [layout |-> "domains", ns |-> "", marker |-> "none", domains |-> <<>>,
     parts |-> <<>>]

\* ET.parse(input_file).getroot() for a file named this way
ResolveDocument(file) ==
    IF file.layout = "domains" THEN Document(file.domains)
    ELSE Root(file.ns,
           << Wrapper(file.ns, "file",
                << Wrapper(file.ns, "body",
                     << ShapeGroup(file.ns, "1", file.marker, file.parts) >>) >>) >>)

----------------------------------------------------------------------------
(* compare_xlf.py: parse_xlf_file, one group at a time                     *)

\* all_groups and the filter for groups with a guid child
ParseFindGroups ==
    /\ prog = "parse_xlf_file"
    /\ pc = "start"
    /\ parse_groups' = TargetGroups(ResolveDocument(input_file))
    /\ parse_index' = 1
    /\ pc' = "groups"
    /\ UNCHANGED <<input_file, parse_data, parse_order>>
    /\ UNCHANGED <<prog, notParse>>

\* one round of "for group in target_groups"
ParseGroup ==
    /\ prog = "parse_xlf_file"
    /\ pc = "groups"
    /\ parse_index <= Len(parse_groups)
    /\ LET group == parse_groups[parse_index]
           group_id == GetId(group.id, <<>>)
       IN  /\ parse_order' = Append(parse_order, group_id)
           /\ parse_data' =
                  DictSet(parse_data, group_id,
                          ResolveGroup(ResolveDocument(input_file), group))
    /\ parse_index' = parse_index + 1
    /\ UNCHANGED <<pc, input_file, parse_groups>>
    /\ UNCHANGED <<prog, notParse>>

\* return data, group_order
ParseReturn ==
    /\ prog = "parse_xlf_file"
    /\ pc = "groups"
    /\ parse_index > Len(parse_groups)
    /\ pc' = "done"
    /\ UNCHANGED parseVars
    /\ UNCHANGED <<prog, notParse>>

----------------------------------------------------------------------------
(* compare_xlf.py: compare_files                                           *)

\* common_groups = set(data1.keys()) & set(data2.keys())
CommonGroups(d1, d2) == (DOMAIN d1) \cap (DOMAIN d2)

\* a content check that finds a change everywhere
ContentChangedAlways(d1, d2, ctype) == TRUE

\* content_changed
ContentChanged(d1, d2, ctype) ==
    IF ctype = "name" THEN d1.name_target # d2.name_target
    ELSE d1.desc_target # d2.desc_target

\* a state check that ignores the include_state flag
StateChangedAlways(d1, d2, ctype, with_state) ==
    IF ctype = "name" THEN d1.name_target_state # d2.name_target_state
    ELSE d1.desc_target_state # d2.desc_target_state

\* state_changed
StateChanged(d1, d2, ctype, with_state) ==
    IF with_state
    THEN IF ctype = "name" THEN d1.name_target_state # d2.name_target_state
         ELSE d1.desc_target_state # d2.desc_target_state
    ELSE FALSE

\* a change_data whose context columns are read from the older snapshot
ChangeDataOlderContext(d1, d2, ctype, with_state) ==
    LET context ==
            IF ctype = "name"
            THEN [abbr |-> d1.abbr, name_source |-> d1.name_source,
                  content_before |-> d1.name_target,
                  content_after |-> d2.name_target]
            ELSE [abbr |-> d1.abbr, name_source |-> d1.name_source,
                  desc_source |-> d1.desc_source,
                  content_before |-> d1.desc_target,
                  content_after |-> d2.desc_target]
        states ==
            IF ctype = "name"
            THEN [state_before |-> d1.name_target_state,
                  state_after |-> d2.name_target_state]
            ELSE [state_before |-> d1.desc_target_state,
                  state_after |-> d2.desc_target_state]
    IN  IF with_state THEN context @@ states ELSE context

\* change_data
ChangeData(d1, d2, ctype, with_state) ==
    IF ctype = "name"
    THEN IF with_state
         THEN [abbr |-> d2.abbr, name_source |-> d2.name_source,
               content_before |-> d1.name_target, content_after |-> d2.name_target,
               state_before |-> d1.name_target_state,
               state_after |-> d2.name_target_state]
         ELSE [abbr |-> d2.abbr, name_source |-> d2.name_source,
               content_before |-> d1.name_target, content_after |-> d2.name_target]
    ELSE IF with_state
         THEN [abbr |-> d2.abbr, name_source |-> d2.name_source,
               desc_source |-> d2.desc_source,
               content_before |-> d1.desc_target, content_after |-> d2.desc_target,
               state_before |-> d1.desc_target_state,
               state_after |-> d2.desc_target_state]
         ELSE [abbr |-> d2.abbr, name_source |-> d2.name_source,
               desc_source |-> d2.desc_source,
               content_before |-> d1.desc_target, content_after |-> d2.desc_target]

\* parse_xlf_file over the input files.  It is a pure function of the file, and
\* "@@ <<>>" has TLC tabulate it once instead of evaluating it in every state.
Parsed == [file \in DiffFiles |-> ParseXlfFile(Document(file))] @@ <<>>

\* a loop that walks the older file's order instead
LoopOrderOlder == order1

\* the sequence "for group_id in order2" walks
LoopOrder == order2

\* data1, order1 = parse_xlf_file(file1)
ParseFile1 ==
    /\ prog = "compare_xlf"
    /\ pc = "start"
    /\ LET parsed == Parsed[file1]
       IN  /\ data1' = parsed.data
           /\ order1' = parsed.group_order
    /\ pc' = "parsed1"
    /\ UNCHANGED <<file1, file2, compare_type, include_state, data2, order2,
                   changes, emitted, k>>
    /\ UNCHANGED <<prog, notDiff>>

\* data2, order2 = parse_xlf_file(file2)
ParseFile2 ==
    /\ prog = "compare_xlf"
    /\ pc = "parsed1"
    /\ LET parsed == Parsed[file2]
       IN  /\ data2' = parsed.data
           /\ order2' = parsed.group_order
    /\ k' = 1
    /\ pc' = "compare"
    /\ UNCHANGED <<file1, file2, compare_type, include_state, data1, order1,
                   changes, emitted>>
    /\ UNCHANGED <<prog, notDiff>>

\* one round of "for group_id in order2"
CompareStep ==
    /\ prog = "compare_xlf"
    /\ pc = "compare"
    /\ k <= Len(LoopOrder)
    /\ LET group_id == LoopOrder[k]
       IN  IF group_id \notin CommonGroups(data1, data2)
           THEN UNCHANGED <<changes, emitted>>
           ELSE LET d1 == data1[group_id]
                    d2 == data2[group_id]
                IN  IF \/ ContentChanged(d1, d2, compare_type)
                       \/ StateChanged(d1, d2, compare_type, include_state)
                    THEN /\ changes' = Append(changes,
                                ChangeData(d1, d2, compare_type, include_state))
                         /\ emitted' = Append(emitted, group_id)
                    ELSE UNCHANGED <<changes, emitted>>
    /\ k' = k + 1
    /\ UNCHANGED <<pc, file1, file2, compare_type, include_state, data1, order1,
                   data2, order2>>
    /\ UNCHANGED <<prog, notDiff>>

\* the loop is over: the report is written, one row per change, in order
WriteChanges ==
    /\ prog = "compare_xlf"
    /\ pc = "compare"
    /\ k > Len(LoopOrder)
    /\ pc' = "done"
    /\ UNCHANGED diffVars
    /\ UNCHANGED <<prog, notDiff>>


----------------------------------------------------------------------------
(* find_identical_translations.py                                          *)

\* s.split(sep) for a one-character separator
RECURSIVE SplitFrom(_, _, _, _)
SplitFrom(s, sep, j, piece) ==
    IF j > Len(s) THEN <<piece>>
    ELSE IF s[j] = sep THEN <<piece>> \o SplitFrom(s, sep, j + 1, <<>>)
    ELSE SplitFrom(s, sep, j + 1, Append(piece, s[j]))

\* a split that gives no piece at all for the empty string
SplitNoEmptyString(s, sep) == IF s = <<>> THEN <<>> ELSE SplitFrom(s, sep, 1, <<>>)

Split(s, sep) == SplitFrom(s, sep, 1, <<>>)

\* [piece.strip() for piece in pieces]
StripAll(pieces) == [j \in 1..Len(pieces) |-> Strip(pieces[j])]

\* element.text if element.text else ''
TextOrEmpty(element) == element.text

\* the namespace find_identical_translations searches in
IdentNs == "urn:oasis:names:tc:xliff:document:1.2"

\* matching pieces that keep the empty pieces
MatchingPiecesWithEmpty(source_text, target_text) ==
    SelectSeq(StripAll(Split(target_text, ",")),
              LAMBDA piece : Contains(source_text, piece))

\* matching_pieces of the comma-split case
MatchingPieces(source_text, target_text) ==
    SelectSeq(StripAll(Split(target_text, ",")),
              LAMBDA piece : piece # <<>> /\ Contains(source_text, piece))

\* a skip test that lets _Abbr units through
IsAbbrNever(trans_unit) == FALSE

\* resname.endswith('_Abbr')
IsAbbr(trans_unit) == EndsWith(GetId(trans_unit.resname, <<>>), <<"_Abbr">>)

\* an exact-identity test that accepts a target contained in the source
SameTextLoose(source_text, target_text) == Contains(source_text, target_text)

\* source_text == target_text
SameText(source_text, target_text) == source_text = target_text

\* a third case that does not look at the translate attribute
Case3AnyTranslate(approved_attr, translate_attr) == approved_attr # "yes"

\* the guard of case 3: approved_attr != 'yes' and translate_attr != 'no'
Case3(approved_attr, translate_attr) ==
    approved_attr # "yes" /\ translate_attr # "no"

ResultRecord(trans_unit, pos, source_text, target_text, pieces, type) ==
    [id |-> GetId(trans_unit.id, <<"N/A">>),
     resname |-> GetId(trans_unit.resname, <<>>),
     source |-> source_text, target |-> target_text,
     matching_pieces |-> pieces, type |-> type,
     pos |-> pos]   \* history: the index of the unit in trans_units

\* The body of "for trans_unit in trans_units": the records (none or one) the
\* unit at index pos adds to results.
UnitRecords(trans_unit, pos) ==
    LET approved_attr == trans_unit.approved
        translate_attr == trans_unit.translate
        source == trans_unit.source
        target == trans_unit.target
        source_text == TextOrEmpty(source)
        target_text == TextOrEmpty(target)
    IN  IF IsAbbr(trans_unit) THEN <<>>
        ELSE IF ~(source.present /\ target.present) THEN <<>>
        ELSE IF target.state = "needs-translation" THEN <<>>
        ELSE IF approved_attr = "yes" /\ translate_attr # "no"
        THEN LET matching_pieces == MatchingPieces(source_text, target_text)
             IN  IF matching_pieces # <<>>
                 THEN << ResultRecord(trans_unit, pos, source_text, target_text,
                                      matching_pieces, "approved (comma-split)") >>
                 ELSE <<>>
        ELSE IF approved_attr = "yes" /\ translate_attr = "no"
        THEN IF SameText(source_text, target_text)
             THEN << ResultRecord(trans_unit, pos, source_text, target_text,
                                  <<source_text>>,
                                  "approved + translate=no (identical)") >>
             ELSE <<>>
        ELSE IF Case3(approved_attr, translate_attr)
        THEN IF SameText(source_text, target_text)
             THEN << ResultRecord(trans_unit, pos, source_text, target_text,
                                  <<source_text>>, "not approved (identical)") >>
             ELSE <<>>
        ELSE <<>>

\* type_order.get(x['type'], 4)
TypeOrder(type) ==
    CASE type = "approved (comma-split)" -> 1
      [] type = "approved + translate=no (identical)" -> 2
      [] type = "not approved (identical)" -> 3
      [] OTHER -> 4

\* an insertion that puts a record before the records of equal key
InsertBeforeEqual(sorted, record) ==
    LET before == SelectSeq(sorted,
                    LAMBDA r : TypeOrder(r.type) < TypeOrder(record.type))
        after == SelectSeq(sorted,
                    LAMBDA r : TypeOrder(r.type) >= TypeOrder(record.type))
    IN  before \o <<record>> \o after

\* list.sort(key=...) is stable: a record goes after the records of smaller or
\* equal key
InsertSorted(sorted, record) ==
    LET before == SelectSeq(sorted,
                    LAMBDA r : TypeOrder(r.type) <= TypeOrder(record.type))
        after == SelectSeq(sorted,
                    LAMBDA r : TypeOrder(r.type) > TypeOrder(record.type))
    IN  before \o <<record>> \o after

\* results.sort(key=lambda x: type_order.get(x['type'], 4))
RECURSIVE SortByType(_, _, _)
SortByType(list, j, sorted) ==
    IF j > Len(list) THEN sorted
    ELSE SortByType(list, j + 1, InsertSorted(sorted, list[j]))

\* ET.parse(xliff_file).getroot()
IdentDocument(file) == Root(file.ns, file.units)

\* trans_units = root.findall('.//xliff:trans-unit', ns)
FindUnits ==
    /\ prog = "find_identical_translations"
    /\ pc = "start"
    /\ trans_units' = FindAll(IdentDocument(xliff_file), QTag(IdentNs, "trans-unit"))
    /\ i' = 1
    /\ pc' = "scan"
    /\ UNCHANGED <<xliff_file, results>>
    /\ UNCHANGED <<prog, notIdent>>

\* one round of "for trans_unit in trans_units"
ScanUnit ==
    /\ prog = "find_identical_translations"
    /\ pc = "scan"
    /\ i <= Len(trans_units)
    /\ results' = results \o UnitRecords(trans_units[i], i)
    /\ i' = i + 1
    /\ UNCHANGED <<pc, xliff_file, trans_units>>
    /\ UNCHANGED <<prog, notIdent>>

\* return results
ReturnResults ==
    /\ prog = "find_identical_translations"
    /\ pc = "scan"
    /\ i > Len(trans_units)
    /\ pc' = "returned"
    /\ UNCHANGED identVars
    /\ UNCHANGED <<prog, notIdent>>

\* main: the results are sorted by type and written in that order
SortResults ==
    /\ prog = "find_identical_translations"
    /\ pc = "returned"
    /\ results' = SortByType(results, 1, <<>>)
    /\ pc' = "done"
    /\ UNCHANGED <<xliff_file, trans_units, i>>
    /\ UNCHANGED <<prog, notIdent>>

----------------------------------------------------------------------------
(* Files given to find_identical_translations                              *)

MaxUnits == 3

IdentUnit(ns, id, resname, approved, translate, source, target) ==
    Node(QTag(ns, "trans-unit"), id, resname, approved, translate,
         source, target, <<>>)

SourceTexts ==
    { <<>>, <<"a", "b">>, <<"a", ",", " ", "b">>,
      <<"r", ",", " ", "g", ",", " ", "b">> }

TargetTexts ==
    { <<>>, <<"a">>, <<"a", "b">>, <<"a", ",", " ", "b">>, <<"c", ",", " ", "b">>,
      <<" ", "b", " ", ",", ",", "a">>, <<"v", ",", " ", "g">> }

\* the last one holds inline markup: its leading text is 'a', its whole text 'ab'
SourceElems ==
    {NoElem} \cup {Elem(None, t, <<>>) : t \in SourceTexts}
    \cup {Elem(None, <<"a">>, <<"b">>)}

TargetElems ==
    {NoElem} \cup
    {Elem(st, t, <<>>) : st \in {None, "needs-translation", "translated"},
                         t \in TargetTexts}

\* every combination of identifier, flags, source and target for a single unit
RichUnits ==
    {IdentUnit(IdentNs, id, rn, ap, tr, src, tgt) :
        id \in {NoAttr, <<"7">>, <<"1", "_Abbr">>},
        rn \in {NoAttr, <<"1", "_Abbr">>, <<"1", "_Name">>},
        ap \in {None, "yes", "no"},
        tr \in {None, "yes", "no"},
        src \in SourceElems,
        tgt \in TargetElems}

\* one unit for each way a unit is treated: the three cases that record, the
\* excluded fourth case, an _Abbr unit and a needs-translation unit
KindUnit(ns, kind) ==
    CASE kind = "split" ->
           IdentUnit(ns, <<"7">>, <<"1", "_Name">>, "yes", None,
                     Elem(None, <<"a", ",", " ", "b">>, <<>>),
                     Elem("translated", <<"c", ",", " ", "b">>, <<>>))
      [] kind = "suppressed" ->
           IdentUnit(ns, <<"7">>, <<"1", "_Name">>, "yes", "no",
                     Elem(None, <<"a", "b">>, <<>>),
                     Elem("final", <<"a", "b">>, <<>>))
      [] kind = "unapproved" ->
           IdentUnit(ns, <<"7">>, <<"1", "_Name">>, "no", None,
                     Elem(None, <<"a", "b">>, <<>>),
                     Elem("translated", <<"a", "b">>, <<>>))
      [] kind = "excluded" ->
           IdentUnit(ns, <<"7">>, <<"1", "_Name">>, None, "no",
                     Elem(None, <<"a", "b">>, <<>>),
                     Elem("translated", <<"a", "b">>, <<>>))
      [] kind = "abbr" ->
           IdentUnit(ns, <<"7">>, <<"1", "_Abbr">>, None, None,
                     Elem(None, <<"a", "b">>, <<>>),
                     Elem("translated", <<"a", "b">>, <<>>))
      [] kind = "untranslated" ->
           IdentUnit(ns, <<"7">>, <<"1", "_Name">>, None, None,
                     Elem(None, <<"a", "b">>, <<>>),
                     Elem("needs-translation", <<"a", "b">>, <<>>))

Kinds == {"split", "suppressed", "unapproved", "excluded", "abbr", "untranslated"}

\* a file of units that lack an element or have no text: one without target, an
\* approved and an unapproved one with both texts empty, one without source
UnitsWithoutText ==
    [ns |-> IdentNs,
     units |-> << IdentUnit(IdentNs, <<"7">>, <<"1", "_Name">>, "yes", None,
                            Elem(None, <<"a", "b">>, <<>>), NoElem),
                  IdentUnit(IdentNs, <<"7">>, <<"1", "_Name">>, "yes", None,
                            Elem(None, <<>>, <<>>), Elem("translated", <<>>, <<>>)),
                  IdentUnit(IdentNs, <<"7">>, <<"1", "_Name">>, None, None,
                            Elem(None, <<>>, <<>>), Elem("translated", <<>>, <<>>)),
                  IdentUnit(IdentNs, <<"7">>, <<"1", "_Name">>, "yes", "no",
                            NoElem, Elem("translated", <<"a", "b">>, <<>>)) >>]

\* the input files: a single unit of any make, the file UnitsWithoutText, or up
\* to MaxUnits units of the six kinds, in a document with or without the XLIFF
\* namespace
IdentFiles ==
    {[ns |-> IdentNs, units |-> <<u>>] : u \in RichUnits}
    \cup {UnitsWithoutText}
    \cup
    {[ns |-> ns, units |-> [j \in 1..Len(kinds) |-> KindUnit(ns, kinds[j])]] :
        ns \in {IdentNs, ""}, kinds \in SeqsUpTo(Kinds, MaxUnits)}

----------------------------------------------------------------------------
(* comma_lists.py                                                          *)

\* trans_unit.get('resname', '') or trans_unit.get('id', '')
UnitId(trans_unit) ==
    IF GetId(trans_unit.resname, <<>>) # <<>>
    THEN GetId(trans_unit.resname, <<>>)
    ELSE GetId(trans_unit.id, <<>>)

\* s.replace(old, new) for whole tokens of an identifier
Replace(s, old, new) == [j \in 1..Len(s) |-> IF s[j] = old THEN new ELSE s[j]]

\* the search for the _Abbr unit: the source text of the first unit whose
\* identifier is abbr_id, '' when there is none
RECURSIVE AbbrSource(_, _, _)
AbbrSource(units, abbr_id, j) ==
    IF j > Len(units) THEN <<>>
    ELSE IF UnitId(units[j]) = abbr_id THEN ExtractText(units[j].source)
    ELSE AbbrSource(units, abbr_id, j + 1)

\* the parts of a text: [part.strip() for part in text.split(',')]
Parts(text) == StripAll(Split(text, ","))

\* a bucket test with the comparison the wrong way round
TargetLongerFlipped(source_count, target_count) == source_count > target_count

\* len(target_parts) > len(source_parts)
TargetLonger(source_count, target_count) == target_count > source_count

\* The body of "for trans_unit in all_trans_units" up to the result: the
\* results (none or one) of the unit at index pos, with the bucket it goes to.
CommaRecords(units, pos) ==
    LET trans_unit == units[pos]
        unit_id == UnitId(trans_unit)
        source_elem == trans_unit.source
        target_elem == trans_unit.target
        source_text == ExtractText(source_elem)
        target_text == ExtractText(target_elem)
        target_state ==
            IF target_elem.present THEN GetStr(target_elem.state, "") ELSE ""
        source_parts == Parts(source_text)
        target_parts == Parts(target_text)
    IN  IF ~EndsWith(unit_id, <<"_Name">>) THEN <<>>
        ELSE IF Len(source_parts) # Len(target_parts)
        THEN << [abbr_source |->
                     AbbrSource(units, Replace(unit_id, "_Name", "_Abbr"), 1),
                 name_source |-> source_text,
                 name_target |-> target_text,
                 target_state |-> target_state,
                 source_count |-> Len(source_parts),
                 target_count |-> Len(target_parts),
                 pos |-> pos] >>   \* history: the index of the unit
        ELSE <<>>

\* ET.parse(input_file).getroot()
CommaDocument(file) == Root(file.ns, file.units)

\* all_trans_units = root.findall('.//trans-unit'), in the root's namespace
CommaFindUnits ==
    /\ prog = "comma_lists"
    /\ pc = "start"
    /\ all_trans_units' =
           FindAll(CommaDocument(comma_file),
                   SearchTag(CommaDocument(comma_file), "trans-unit"))
    /\ unit_index' = 1
    /\ pc' = "scan"
    /\ UNCHANGED <<comma_file, increased_results, decreased_results>>
    /\ UNCHANGED <<prog, notComma>>

\* one round of "for trans_unit in all_trans_units"
CommaUnit ==
    /\ prog = "comma_lists"
    /\ pc = "scan"
    /\ unit_index <= Len(all_trans_units)
    /\ LET found == CommaRecords(all_trans_units, unit_index)
       IN  /\ increased_results' =
                  increased_results \o
                  SelectSeq(found,
                      LAMBDA r : TargetLonger(r.source_count, r.target_count))
           /\ decreased_results' =
                  decreased_results \o
                  SelectSeq(found,
                      LAMBDA r : ~TargetLonger(r.source_count, r.target_count))
    /\ unit_index' = unit_index + 1
    /\ UNCHANGED <<pc, comma_file, all_trans_units>>
    /\ UNCHANGED <<prog, notComma>>

\* the loop is over: the two buckets are written, the increased one first
CommaWrite ==
    /\ prog = "comma_lists"
    /\ pc = "scan"
    /\ unit_index > Len(all_trans_units)
    /\ pc' = "done"
    /\ UNCHANGED commaVars
    /\ UNCHANGED <<prog, notComma>>

----------------------------------------------------------------------------
(* Files given to comma_lists                                              *)

\* a unit known by its resname (an XLIFF export) or by its id (an XLF download)
CommaNode(ns, byResname, name, source, target) ==
    IF byResname
    THEN Node(QTag(ns, "trans-unit"), <<"7">>, name, None, None, source, target, <<>>)
    ELSE Node(QTag(ns, "trans-unit"), name, NoAttr, None, None, source, target, <<>>)

ListSources ==
    { <<>>, <<"a">>, <<"a", ",", " ", "b">>,
      <<"a", ",", " ", "b", ",", " ", "c">> }

ListTargets ==
    { <<>>, <<" ">>, <<"x">>, <<"a", ",", " ", "b">>, <<"x", ",", " ", "y">>,
      <<" ", "x", " ", ",", "y", ",", "z">> }

ListSourceElems == {NoElem} \cup {Elem(None, t, <<>>) : t \in ListSources}

ListTargetElems ==
    {NoElem} \cup
    {Elem(st, t, <<>>) : st \in {"translated", "needs-translation"},
                         t \in ListTargets}

AbbrNode(ns, byResname) ==
    CommaNode(ns, byResname, <<"1", "_Abbr">>,
              Elem(None, <<"1">>, <<>>), Elem("final", <<"1">>, <<>>))

\* a _Name unit of any make, after the _Abbr unit of its domain
RichNameFiles ==
    {[ns |-> ns,
      units |-> << AbbrNode(ns, by),
                   CommaNode(ns, by, <<"1", "_Name">>, src, tgt) >>] :
        ns \in {XliffNs, ""}, by \in BOOLEAN,
        src \in ListSourceElems, tgt \in ListTargetElems}

\* one unit for each way a unit is treated: a longer, a shorter and an equally
\* long target list, the _Abbr unit, a unit that is no _Name unit, a single
\* item with an empty target, and a list with no target element
ListKindUnit(ns, kind) ==
    CASE kind = "longer" ->
           CommaNode(ns, TRUE, <<"1", "_Name">>, Elem(None, <<"a">>, <<>>),
                     Elem("translated", <<"a", ",", " ", "b">>, <<>>))
      [] kind = "shorter" ->
           CommaNode(ns, TRUE, <<"1", "_Name">>,
                     Elem(None, <<"a", ",", " ", "b", ",", " ", "c">>, <<>>),
                     Elem("translated", <<"x", ",", " ", "y">>, <<>>))
      [] kind = "equal" ->
           CommaNode(ns, TRUE, <<"1", "_Name">>,
                     Elem(None, <<"a", ",", " ", "b">>, <<>>),
                     Elem("translated", <<"x", ",", " ", "y">>, <<>>))
      [] kind = "abbr" -> AbbrNode(ns, TRUE)
      [] kind = "desc" ->
           CommaNode(ns, TRUE, <<"1", "_Desc", "_0">>,
                     Elem(None, <<"a", ",", " ", "b">>, <<>>),
                     Elem("translated", <<"x">>, <<>>))
      [] kind = "empty" ->
           CommaNode(ns, TRUE, <<"1", "_Name">>, Elem(None, <<"a">>, <<>>),
                     Elem("translated", <<>>, <<>>))
      [] kind = "absent" ->
           CommaNode(ns, TRUE, <<"1", "_Name">>,
                     Elem(None, <<"a", ",", " ", "b">>, <<>>), NoElem)

ListKinds == {"longer", "shorter", "equal", "abbr", "desc", "empty", "absent"}

CommaFiles ==
    RichNameFiles
    \cup
    {[ns |-> XliffNs,
      units |-> [j \in 1..Len(kinds) |-> ListKindUnit(XliffNs, kinds[j])]] :
        kinds \in SeqsUpTo(ListKinds, MaxUnits)}

----------------------------------------------------------------------------
(* extract_xlf.py                                                          *)

PatternTypes ==
    {"name", "name_with_desc", "description", "description_with_name", "question"}

\* the tokens that stand for a run of digits in an identifier
DigitTokens == {"0", "1", "2", "12"}

\* pattern.search(unit_id) for the pattern of a pattern type:
\* _Name$, _Desc_0$ or _Qs_\d+_Q$
PatternMatches(ptype, unit_id) ==
    IF ptype \in {"name", "name_with_desc"} THEN EndsWith(unit_id, <<"_Name">>)
    ELSE IF ptype \in {"description", "description_with_name"}
    THEN EndsWith(unit_id, <<"_Desc", "_0">>)
    ELSE /\ Len(unit_id) >= 3
         /\ unit_id[Len(unit_id)] = "_Q"
         /\ unit_id[Len(unit_id) - 1] \in DigitTokens
         /\ unit_id[Len(unit_id) - 2] = "_Qs_"

\* include_extra
IncludeExtra(ptype) == ptype \in {"name_with_desc", "description_with_name"}

\* extra_pattern.search(unit_id): _Desc_0$ with names, _Name$ with descriptions
ExtraMatches(ptype, unit_id) ==
    IF ptype = "name_with_desc" THEN EndsWith(unit_id, <<"_Desc", "_0">>)
    ELSE EndsWith(unit_id, <<"_Name">>)

\* the search for the _Abbr trans-unit among the direct children of a group
RECURSIVE AbbrText(_, _)
AbbrText(children, j) ==
    IF j > Len(children) THEN <<>>
    ELSE IF /\ EndsWith(children[j].tag, <<"trans-unit">>)
            /\ EndsWith(GetId(children[j].id, <<>>), <<"_Abbr">>)
    THEN ExtractText(children[j].source)
    ELSE AbbrText(children, j + 1)

NoMatch ==
    [found |-> FALSE, source_text |-> <<>>, target_text |-> <<>>,
     extra_source_text |-> <<>>]

\* the target text extract_data takes from a matching unit
ExtractedTarget(target_elem) == ExtractText(target_elem)

\* one round of the loop that looks for the matching trans-unit
MatchUnit(ptype, acc, trans_unit) ==
    LET unit_id == GetId(trans_unit.id, <<>>)
        matched ==
            IF PatternMatches(ptype, unit_id)
            THEN [acc EXCEPT !.found = TRUE,
                             !.source_text = ExtractText(trans_unit.source),
                             !.target_text = ExtractedTarget(trans_unit.target)]
            ELSE acc
    IN  IF IncludeExtra(ptype) /\ ExtraMatches(ptype, unit_id)
        THEN [matched EXCEPT !.extra_source_text = ExtractText(trans_unit.source)]
        ELSE matched

RECURSIVE MatchUnits(_, _, _, _)
MatchUnits(ptype, acc, units, j) ==
    IF j > Len(units) THEN acc
    ELSE MatchUnits(ptype, MatchUnit(ptype, acc, units[j]), units, j + 1)

\* the tuple appended to results for a group where the element was found
ResultRow(ptype, abbr_text, match) ==
    IF IncludeExtra(ptype)
    THEN IF ptype = "description_with_name"
         THEN <<abbr_text, match.extra_source_text, match.source_text,
                match.target_text>>
         ELSE <<abbr_text, match.source_text, match.target_text,
                match.extra_source_text>>
    ELSE <<abbr_text, match.source_text, match.target_text>>

\* a match that looks at the direct children of the group only
GroupMatchDirect(root, ptype, group) ==
    MatchUnits(ptype, NoMatch,
               SelectSeq(group.kids, LAMBDA c : EndsWith(c.tag, <<"trans-unit">>)), 1)

\* what one semantic domain group yields: the match over its effective units
GroupMatch(root, ptype, group) ==
    MatchUnits(ptype, NoMatch, EffectiveUnits(root, group.kids, 1), 1)

\* target_groups: the groups with a guid child, in document order
ExtractFindGroups ==
    /\ prog = "extract_xlf"
    /\ pc = "start"
    /\ target_groups' = TargetGroups(ResolveDocument(extract_file))
    /\ group_index' = 1
    /\ pc' = "groups"
    /\ UNCHANGED <<extract_file, pattern_type, extract_results, missing_count>>
    /\ UNCHANGED <<prog, notExtract>>

\* one round of "for group in target_groups"
ExtractGroup ==
    /\ prog = "extract_xlf"
    /\ pc = "groups"
    /\ group_index <= Len(target_groups)
    /\ LET group == target_groups[group_index]
           match == GroupMatch(ResolveDocument(extract_file), pattern_type, group)
       IN  IF match.found
           THEN /\ extract_results' =
                       Append(extract_results,
                              [row |-> ResultRow(pattern_type,
                                                 AbbrText(group.kids, 1), match),
                               \* history: the index of the group
                               group |-> group_index])
                /\ UNCHANGED missing_count
           ELSE /\ missing_count' = missing_count + 1
                /\ UNCHANGED extract_results
    /\ group_index' = group_index + 1
    /\ UNCHANGED <<pc, extract_file, pattern_type, target_groups>>
    /\ UNCHANGED <<prog, notExtract>>

\* the loop is over: the rows are written in order
ExtractWrite ==
    /\ prog = "extract_xlf"
    /\ pc = "groups"
    /\ group_index > Len(target_groups)
    /\ pc' = "done"
    /\ UNCHANGED extractVars
    /\ UNCHANGED <<prog, notExtract>>

----------------------------------------------------------------------------
(* sort_comparisons.py                                                     *)
(*                                                                         *)
(* A line of a file or of the terminal is a sequence of tokens; the tab    *)
(* and the newline are tokens of their own, a cell or a group name is a    *)
(* sequence of tokens without them, and a shortcut character is one token. *)

Tab == "\t"
Newline == "\n"

\* the backtick character, the shortcut that creates a new group
Backtick == "backtick"

\* sep.join(cells)
RECURSIVE Join(_, _)
Join(cells, sep) ==
    IF cells = <<>> THEN <<>>
    ELSE IF Len(cells) = 1 THEN cells[1]
    ELSE cells[1] \o <<sep>> \o Join(Tail(cells), sep)

\* line.strip().split('\t')
SplitLine(line) == Split(Strip(line), Tab)

\* header = lines[0].strip().split('\t')
ReadHeader(lines) == SplitLine(lines[1])

\* data = [line.strip().split('\t') for line in lines[1:] if line.strip()]
RECURSIVE ReadDataFrom(_, _)
ReadDataFrom(lines, j) ==
    IF j > Len(lines) THEN <<>>
    ELSE IF Strip(lines[j]) = <<>> THEN ReadDataFrom(lines, j + 1)
    ELSE <<SplitLine(lines[j])>> \o ReadDataFrom(lines, j + 1)

ReadData(lines) == ReadDataFrom(lines, 2)

\* the default groups with their character mappings
DefaultGroupChars ==
    ("1" :> <<"untranslated">>) @@ ("2" :> <<"wrong">>) @@ ("3" :> <<"misc">>) @@
    ("4" :> <<"typo">>) @@ ("5" :> <<"article/preposition">>) @@
    ("6" :> <<"add word">>) @@ ("7" :> <<"remove word">>) @@
    ("8" :> <<"change word">>) @@ ("9" :> <<"neuter">>) @@ ("0" :> <<"-se">>) @@
    ("-" :> <<"PT->BR">>) @@ ("=" :> <<"count">>) @@ ("q" :> <<"infinitive">>) @@
    ("w" :> <<"other">>)

\* the characters a new group can be assigned to
available_chars == <<"e", "r", "t", "y", "u", "i", "o", "p", "[", "]", "\\">>

\* a search that takes the last free character instead of the first
RECURSIVE LastCharFrom(_, _)
LastCharFrom(gc, j) ==
    IF j < 1 THEN None
    ELSE IF available_chars[j] \notin DOMAIN gc THEN available_chars[j]
    ELSE LastCharFrom(gc, j - 1)

\* for c in available_chars: if c not in group_chars: next_char = c; break
RECURSIVE NextCharFrom(_, _)
NextCharFrom(gc, j) ==
    IF j > Len(available_chars) THEN None
    ELSE IF available_chars[j] \notin DOMAIN gc THEN available_chars[j]
    ELSE NextCharFrom(gc, j + 1)

NextCharLast(gc) == LastCharFrom(gc, Len(available_chars))

NextChar(gc) == NextCharFrom(gc, 1)

\* invalid_chars = [c for c in choice if c not in group_chars]
InvalidChars(c, gc) == SelectSeq(c, LAMBDA x : x \notin DOMAIN gc)

\* selected_groups = [group_chars[c] for c in choice]
SelectedGroupNames(c, gc) == [j \in 1..Len(c) |-> gc[c[j]]]

\* sorted(names): the group names the model knows, in the order of their code
\* points ('-' < 'P' < the lower-case letters)
LabelOrder ==
    << <<"-se">>, <<"PT->BR">>, <<"add word">>, <<"article/preposition">>,
       <<"change word">>, <<"count">>, <<"infinitive">>, <<"misc">>, <<"neuter">>,
       <<"new">>, <<"other">>, <<"remove word">>, <<"typo">>, <<"untranslated">>,
       <<"wrong">> >>

Sorted(names) == SelectSeq(LabelOrder, LAMBDA g : g \in names)

\* used_groups: the sorted union of the sets of row_groups
UsedGroups(rg) == Sorted(UNION {rg[x] : x \in DOMAIN rg})

\* row_groups.get(i, set())
GroupsInRow(rg, x) == IF x \in DOMAIN rg THEN rg[x] ELSE {}

\* ['1' if group in groups_in_row else '0' for group in used_groups]
GroupValues(groups_in_row, used_groups) ==
    [j \in 1..Len(used_groups) |->
        IF used_groups[j] \in groups_in_row THEN <<"1">> ELSE <<"0">>]

\* the lines written to the output file
OutputLines(h, d, rg) ==
    LET used_groups == UsedGroups(rg)
    IN  <<Join(h \o used_groups, Tab) \o <<Newline>>>> \o
        [j \in 1..Len(d) |->
            Join(d[j] \o GroupValues(GroupsInRow(rg, j - 1), used_groups), Tab)
                \o <<Newline>>]

\* lines 96-105 of get_user_choice and lines 179-187 of the row loop: the choice
\* c is checked against the map gc; an invalid choice prompts again, a valid one
\* is returned (choice and new_group are gone with the call) and the row is
\* added to the selected groups; name is what new_group holds at the check
ValidateAndConfirm(c, gc, name) ==
    IF InvalidChars(c, gc) # <<>>
    THEN /\ pc' = "prompt"
         /\ choice' = c
         /\ new_group' = name
         /\ UNCHANGED <<row_groups, rows_processed, row_index>>
    ELSE /\ row_groups' = DictSet(row_groups, row_index,
                                  Range(SelectedGroupNames(c, gc)))
         /\ rows_processed' = row_index + 1
         /\ row_index' = row_index + 1
         /\ choice' = <<>>
         /\ new_group' = <<>>
         /\ pc' = IF row_index + 1 < Len(sort_data) THEN "prompt" ELSE "write"

----------------------------------------------------------------------------
(* Files given to sort_comparisons and lines typed by the operator         *)

MaxRows == 2

\* a line of the input file
Line(cells) == Join(cells, Tab) \o <<Newline>>

HeaderLine == Line(<< <<"Before">>, <<"After">> >>)

\* rows of two cells, either of which may be empty
RowLines == {Line(<<x, y>>) : x \in {<<>>, <<"a">>}, y \in {<<>>, <<"b">>}}

\* a file of three different rows
ThreeRows ==
    <<HeaderLine, Line(<< <<"a">>, <<"b">> >>), Line(<< <<>>, <<"b">> >>),
      Line(<< <<"a">>, <<>> >>)>>

\* the empty file, a header line followed by up to MaxRows lines, and ThreeRows
SortFiles ==
    {<<>>, ThreeRows}
        \cup {<<HeaderLine>> \o rows : rows \in SeqsUpTo(RowLines, MaxRows)}

\* the column arguments: a valid pair and two invalid ones
ColumnPairs == {<<1, 2>>, <<0, 1>>, <<1, 3>>}

\* answers to "Enter character(s) for group(s)"
ChoiceLines ==
    {<<>>, <<" ">>, <<"1">>, <<" ", "2", "1">>, <<Backtick>>, <<Backtick, "z">>,
     <<"z">>, <<"e", "r">>}

\* answers to "Press Enter again to end early"
ConfirmLines == {<<>>, <<" ">>, <<"x">>}

\* answers to "Enter name for new group"
NameLines == {<<>>, <<" ">>, <<"new">>, <<" ", "new", " ">>}

----------------------------------------------------------------------------
(* sort_comparisons.py: the session, one prompt at a time                  *)

\* read_tsv_file, the check of the column indices and the default groups
SortRead ==
    /\ prog = "sort_comparisons"
    /\ pc = "start"
    /\ IF sort_file = <<>>
       THEN /\ pc' = "exit1"
            /\ UNCHANGED <<header, sort_data, group_chars, row_groups>>
       ELSE LET h == ReadHeader(sort_file)
                d == ReadData(sort_file)
            IN  /\ header' = h
                /\ sort_data' = d
                /\ IF col1 < 1 \/ col1 > Len(h) \/ col2 < 1 \/ col2 > Len(h)
                   THEN /\ pc' = "exit1"
                        /\ UNCHANGED <<group_chars, row_groups>>
                   ELSE /\ group_chars' = DefaultGroupChars
                        /\ row_groups' = <<>>
                        /\ pc' = IF Len(d) > 0 THEN "prompt" ELSE "write"
    /\ UNCHANGED <<prog, sort_file, col1, col2, rows_processed, row_index, choice,
                   new_group, written, notSort>>

\* choice = input("Enter character(s) for group(s) ...").strip()
SortChoice ==
    /\ prog = "sort_comparisons"
    /\ pc = "prompt"
    /\ \E line \in ChoiceLines :
         LET c == Strip(line)
         IN  IF c = <<>>
             THEN /\ pc' = "confirm"
                  /\ choice' = c
                  /\ UNCHANGED <<row_groups, rows_processed, row_index, new_group>>
             ELSE IF Backtick \in Range(c)
             THEN /\ pc' = "name"
                  /\ choice' = c
                  /\ UNCHANGED <<row_groups, rows_processed, row_index, new_group>>
             ELSE ValidateAndConfirm(c, group_chars, new_group)
    /\ UNCHANGED <<prog, sort_file, col1, col2, header, sort_data, group_chars,
                   written, notSort>>

\* confirm = input("Press Enter again to end early ...").strip()
SortConfirm ==
    /\ prog = "sort_comparisons"
    /\ pc = "confirm"
    /\ \E line \in ConfirmLines :
         IF Strip(line) = <<>>
         THEN /\ rows_processed' = row_index
              /\ sort_data' = SubSeq(sort_data, 1, row_index)
              /\ choice' = <<>>
              /\ new_group' = <<>>
              /\ pc' = "write"
         ELSE /\ pc' = "prompt"
              /\ UNCHANGED <<rows_processed, sort_data, choice, new_group>>
    /\ UNCHANGED <<prog, sort_file, col1, col2, header, group_chars, row_groups,
                   row_index, written, notSort>>

\* a name prompt that binds the new group only when the whole line is valid
SortNewGroupIfValid ==
    /\ prog = "sort_comparisons"
    /\ pc = "name"
    /\ \E line \in NameLines :
         LET name == Strip(line)
             next_char == NextChar(group_chars)
             bound == DictSet(group_chars, next_char, name)
             replaced == Replace(choice, Backtick, next_char)
         IN  IF name = <<>> \/ next_char = None
             THEN /\ pc' = "prompt"
                  /\ new_group' = name
                  /\ UNCHANGED <<group_chars, choice, row_groups, rows_processed,
                                 row_index>>
             ELSE /\ group_chars' = IF InvalidChars(replaced, bound) # <<>>
                                    THEN group_chars ELSE bound
                  /\ ValidateAndConfirm(replaced, bound, name)
    /\ UNCHANGED <<prog, sort_file, col1, col2, header, sort_data, written,
                   notSort>>

\* new_group = input("Enter name for new group: ").strip()
SortNewGroup ==
    /\ prog = "sort_comparisons"
    /\ pc = "name"
    /\ \E line \in NameLines :
         LET name == Strip(line)
             next_char == NextChar(group_chars)
         IN  IF name = <<>> \/ next_char = None
             THEN /\ pc' = "prompt"
                  /\ new_group' = name
                  /\ UNCHANGED <<group_chars, choice, row_groups, rows_processed,
                                 row_index>>
             ELSE /\ group_chars' = DictSet(group_chars, next_char, name)
                  /\ ValidateAndConfirm(Replace(choice, Backtick, next_char),
                                        DictSet(group_chars, next_char, name), name)
    /\ UNCHANGED <<prog, sort_file, col1, col2, header, sort_data, written,
                   notSort>>

\* the input stream ends at a prompt: except EOFError: sys.exit(0)
SortEndOfInput ==
    /\ prog = "sort_comparisons"
    /\ pc \in {"prompt", "confirm", "name"}
    /\ pc' = "exit0"
    /\ UNCHANGED <<prog, sortVars, notSort>>

\* the loop is over: the output file is written
SortWrite ==
    /\ prog = "sort_comparisons"
    /\ pc = "write"
    /\ written' = OutputLines(header, sort_data, row_groups)
    /\ pc' = "done"
    /\ UNCHANGED <<prog, sort_file, col1, col2, header, sort_data, group_chars,
                   row_groups, rows_processed, row_index, choice, new_group,
                   notSort>>

----------------------------------------------------------------------------
(* Specifications: one per program                                          *)

\* sort_comparisons is not running
SortIdle ==
    /\ sort_file = <<>>
    /\ col1 = 0
    /\ col2 = 0
    /\ header = <<>>
    /\ sort_data = <<>>
    /\ group_chars = <<>>
    /\ row_groups = <<>>
    /\ rows_processed = 0
    /\ row_index = 0
    /\ choice = <<>>
    /\ new_group = <<>>
    /\ written = None

\* compare_xlf is not running
DiffIdle ==
    /\ file1 = <<>>
    /\ file2 = <<>>
    /\ compare_type = "name"
    /\ include_state = FALSE
    /\ data1 = EmptyDict
    /\ order1 = <<>>
    /\ data2 = EmptyDict
    /\ order2 = <<>>
    /\ changes = <<>>
    /\ emitted = <<>>
    /\ k = 0

\* find_identical_translations is not running
IdentIdle ==
    /\ xliff_file = [ns |-> "", units |-> <<>>]
    /\ trans_units = <<>>
    /\ results = <<>>
    /\ i = 0

\* comma_lists is not running
CommaIdle ==
    /\ comma_file = [ns |-> "", units |-> <<>>]
    /\ all_trans_units = <<>>
    /\ increased_results = <<>>
    /\ decreased_results = <<>>
    /\ unit_index = 0

\* extract_xlf is not running
ExtractIdle ==
    /\ extract_file = NoFile
    /\ pattern_type = "name"
    /\ target_groups = <<>>
    /\ extract_results = <<>>
    /\ missing_count = 0
    /\ group_index = 0

\* parse_xlf_file is not running on its own
ParseIdle ==
    /\ input_file = NoFile
    /\ parse_groups = <<>>
    /\ parse_data = EmptyDict
    /\ parse_order = <<>>
    /\ parse_index = 0

InitDiff ==
    /\ prog = "compare_xlf"
    /\ pc = "start"
    /\ IdentIdle
    /\ CommaIdle
    /\ ExtractIdle
    /\ ParseIdle
    /\ SortIdle
    /\ file1 \in DiffFiles
    /\ file2 \in DiffFiles
    /\ compare_type \in {"name", "description"}
    /\ include_state \in BOOLEAN
    /\ data1 = EmptyDict
    /\ order1 = <<>>
    /\ data2 = EmptyDict
    /\ order2 = <<>>
    /\ changes = <<>>
    /\ emitted = <<>>
    /\ k = 0

NextDiff == ParseFile1 \/ ParseFile2 \/ CompareStep \/ WriteChanges

SpecDiff == InitDiff /\ [][NextDiff]_vars

InitIdent ==
    /\ prog = "find_identical_translations"
    /\ pc = "start"
    /\ DiffIdle
    /\ CommaIdle
    /\ ExtractIdle
    /\ ParseIdle
    /\ SortIdle
    /\ xliff_file \in IdentFiles
    /\ trans_units = <<>>
    /\ results = <<>>
    /\ i = 0

NextIdent == FindUnits \/ ScanUnit \/ ReturnResults \/ SortResults

SpecIdent == InitIdent /\ [][NextIdent]_vars

InitComma ==
    /\ prog = "comma_lists"
    /\ pc = "start"
    /\ DiffIdle
    /\ IdentIdle
    /\ ExtractIdle
    /\ ParseIdle
    /\ SortIdle
    /\ comma_file \in CommaFiles
    /\ all_trans_units = <<>>
    /\ increased_results = <<>>
    /\ decreased_results = <<>>
    /\ unit_index = 0

NextComma == CommaFindUnits \/ CommaUnit \/ CommaWrite

SpecComma == InitComma /\ [][NextComma]_vars

InitExtract ==
    /\ prog = "extract_xlf"
    /\ pc = "start"
    /\ DiffIdle
    /\ IdentIdle
    /\ CommaIdle
    /\ ParseIdle
    /\ SortIdle
    /\ extract_file \in ResolveFiles
    /\ pattern_type \in PatternTypes
    /\ target_groups = <<>>
    /\ extract_results = <<>>
    /\ missing_count = 0
    /\ group_index = 0

NextExtract == ExtractFindGroups \/ ExtractGroup \/ ExtractWrite

SpecExtract == InitExtract /\ [][NextExtract]_vars

InitParse ==
    /\ prog = "parse_xlf_file"
    /\ pc = "start"
    /\ DiffIdle
    /\ IdentIdle
    /\ CommaIdle
    /\ ExtractIdle
    /\ SortIdle
    /\ input_file \in ResolveFiles
    /\ parse_groups = <<>>
    /\ parse_data = EmptyDict
    /\ parse_order = <<>>
    /\ parse_index = 0

NextParse == ParseFindGroups \/ ParseGroup \/ ParseReturn

SpecParse == InitParse /\ [][NextParse]_vars

InitSort ==
    /\ prog = "sort_comparisons"
    /\ pc = "start"
    /\ DiffIdle
    /\ IdentIdle
    /\ CommaIdle
    /\ ExtractIdle
    /\ ParseIdle
    /\ sort_file \in SortFiles
    /\ \E columns \in ColumnPairs : col1 = columns[1] /\ col2 = columns[2]
    /\ header = <<>>
    /\ sort_data = <<>>
    /\ group_chars = <<>>
    /\ row_groups = <<>>
    /\ rows_processed = 0
    /\ row_index = 0
    /\ choice = <<>>
    /\ new_group = <<>>
    /\ written = None

NextSort ==
    SortRead \/ SortChoice \/ SortConfirm \/ SortNewGroup \/ SortEndOfInput
        \/ SortWrite

SpecSort == InitSort /\ [][NextSort]_vars

\* the two programs that resolve the groups of a document
InitResolve == InitParse \/ InitExtract

NextResolve == NextParse \/ NextExtract

SpecResolve == InitResolve /\ [][NextResolve]_vars

\* any one of the programs that read XLIFF, run once
Init == InitDiff \/ InitIdent \/ InitComma \/ InitExtract \/ InitParse

Next == NextDiff \/ NextIdent \/ NextComma \/ NextExtract \/ NextParse

Spec == Init /\ [][Next]_vars

----------------------------------------------------------------------------
(* Properties of compare_xlf (SpecDiff)                                    *)

\* the tracked field of a resolved group, read off the snapshot
FieldContent(d) == IF compare_type = "name" THEN d.name_target ELSE d.desc_target
FieldState(d) ==
    IF compare_type = "name" THEN d.name_target_state ELSE d.desc_target_state

\* the change predicate of the diff for group identifier g
InBoth(g) == g \in DOMAIN data1 /\ g \in DOMAIN data2
ContentDiffers(g) == FieldContent(data1[g]) # FieldContent(data2[g])
StateDiffers(g) == FieldState(data1[g]) # FieldState(data2[g])
MustAppear(g) ==
    InBoth(g) /\ (ContentDiffers(g) \/ (include_state /\ StateDiffers(g)))

KnownIds == {<<g>> : g \in GroupIds} \cup Range(emitted)

\* C1: when compare_files is done, a group identifier is in the output iff it is
\* a key of both snapshots and its target content differs, or include_state is
\* set and its target state differs.
C1_DiffIff ==
    pc = "done" => \A g \in KnownIds : (g \in Range(emitted)) <=> MustAppear(g)

\* a finished run with state columns where a group is reported for a change of
\* state alone and another group of the newer file is missing from the older one
C1_Witness ==
    /\ pc = "done"
    /\ include_state
    /\ \E g \in Range(emitted) : ~ContentDiffers(g) /\ StateDiffers(g)
    /\ (DOMAIN data2) \ (DOMAIN data1) # {}

\* C2: the group identifiers of the ChangeRecords are, at every point of the
\* loop, the visited part of the newer file's group order restricted to the
\* groups that must appear; the older file's order plays no part.
C2_NewerOrder ==
    pc \in {"compare", "done"} =>
        /\ Len(changes) = Len(emitted)
        /\ k - 1 <= Len(order2)
        /\ emitted = SelectSeq(SubSeq(order2, 1, k - 1), MustAppear)

\* a finished run reporting two groups that the older file holds in the
\* opposite order
C2_Witness ==
    /\ pc = "done"
    /\ Len(emitted) = 2
    /\ emitted[1] # emitted[2]
    /\ order1 = <<emitted[2], emitted[1]>>

\* the last domain of a file with group identifier g
LastVersion(file, g) ==
    LET at == {j \in 1..Len(file) : <<file[j][1]>> = g}
    IN  file[CHOOSE j \in at : \A m \in at : m <= j][2]

Suppressed(file, data) ==
    \A g \in DOMAIN data :
        /\ data[g].name_target_state = "needs-translation" => data[g].name_target = <<>>
        /\ data[g].desc_target_state = "needs-translation" => data[g].desc_target = <<>>
        /\ NameTarget(LastVersion(file, g)).state = "needs-translation"
               => data[g].name_target_state = "needs-translation"
        /\ DescTarget(LastVersion(file, g)).state = "needs-translation"
               => data[g].desc_target_state = "needs-translation"

\* C3: in every snapshot, a name or description whose recorded state is
\* 'needs-translation' has the empty recorded target text, and a target element
\* of that state is recorded with that state.
C3_NeedsTranslationEmpty == Suppressed(file1, data1) /\ Suppressed(file2, data2)

\* both fields are recorded under 'needs-translation' from target elements that
\* hold text
C3_Witness ==
    /\ \E g \in DOMAIN data1 :
           /\ data1[g].name_target_state = "needs-translation"
           /\ ExtractText(NameTarget(LastVersion(file1, g))) # <<>>
    /\ \E g \in DOMAIN data2 :
           /\ data2[g].desc_target_state = "needs-translation"
           /\ ExtractText(DescTarget(LastVersion(file2, g))) # <<>>

\* the members a ChangeRecord must have
ChangeMembers ==
    {"abbr", "name_source", "content_before", "content_after"}
    \cup (IF compare_type = "description" THEN {"desc_source"} ELSE {})
    \cup (IF include_state THEN {"state_before", "state_after"} ELSE {})

\* C17: every ChangeRecord has its content (and state, under include_state)
\* before from the older snapshot and after from the newer snapshot, its
\* abbreviation, name source and, for descriptions, description source from the
\* newer snapshot, and state members iff include_state is set.
C17_ChangeRecord ==
    /\ Len(changes) = Len(emitted)
    /\ \A j \in 1..Len(changes) :
           LET change == changes[j]
               older == data1[emitted[j]]
               newer == data2[emitted[j]]
           IN  /\ DOMAIN change = ChangeMembers
               /\ change.abbr = newer.abbr
               /\ change.name_source = newer.name_source
               /\ compare_type = "description" =>
                      change.desc_source = newer.desc_source
               /\ change.content_before = FieldContent(older)
               /\ change.content_after = FieldContent(newer)
               /\ include_state =>
                      /\ change.state_before = FieldState(older)
                      /\ change.state_after = FieldState(newer)

\* a description report with states, with a record for a group whose
\* abbreviation, name source and description source all differ between the
\* snapshots, as do its content and its state
C17_Witness ==
    /\ pc = "done"
    /\ include_state
    /\ compare_type = "description"
    /\ \E j \in 1..Len(changes) :
           LET older == data1[emitted[j]]
               newer == data2[emitted[j]]
           IN  /\ older.abbr # newer.abbr
               /\ older.name_source # newer.name_source
               /\ older.desc_source # newer.desc_source
               /\ changes[j].content_before # changes[j].content_after
               /\ changes[j].state_before # changes[j].state_after

----------------------------------------------------------------------------
(* Properties of find_identical_translations (SpecIdent)                   *)

\* the units visited so far
Visited ==
    IF pc = "scan" THEN 1..(i - 1)
    ELSE IF pc \in {"returned", "done"} THEN 1..Len(trans_units)
    ELSE {}

\* the records the unit at index p has produced
RecordsOf(p) == SelectSeq(results, LAMBDA r : r.pos = p)

NameEndsInAbbr(u) ==
    /\ u.resname # NoAttr
    /\ Len(u.resname) > 0
    /\ u.resname[Len(u.resname)] = "_Abbr"

NeedsTranslation(u) == u.target.present /\ u.target.state = "needs-translation"
Excluded(u) == NameEndsInAbbr(u) \/ NeedsTranslation(u)
HasBoth(u) == u.source.present /\ u.target.present
IsApproved(u) == u.approved = "yes"
IsSuppressed(u) == u.translate = "no"

\* C5: no record ever comes from a unit whose identifier (its resname) ends in
\* '_Abbr' or whose target state is 'needs-translation'.
C5_ExcludedNeverReported ==
    /\ \A r \in Range(results) :
           /\ r.pos \in 1..Len(trans_units)
           /\ ~Excluded(trans_units[r.pos])
    /\ \A p \in Visited : Excluded(trans_units[p]) => RecordsOf(p) = <<>>

\* a finished scan that visited an _Abbr unit and a needs-translation unit, each
\* with identical source and target, next to a unit that was recorded
C5_Witness ==
    /\ pc = "returned"
    /\ \E p \in Visited :
           LET u == trans_units[p]
           IN  NameEndsInAbbr(u) /\ ~NeedsTranslation(u) /\ HasBoth(u)
               /\ u.source.text = u.target.text
    /\ \E p \in Visited :
           LET u == trans_units[p]
           IN  ~NameEndsInAbbr(u) /\ NeedsTranslation(u) /\ HasBoth(u)
               /\ u.source.text = u.target.text
    /\ results # <<>>

\* The comma-separated pieces of a text, read off the positions of its commas:
\* the piece between two neighbouring cuts, without its outer blanks.
Cuts(t) == {0, Len(t) + 1} \cup {p \in 1..Len(t) : t[p] = ","}

PieceBetween(t, l, r) ==
    LET solid == {p \in (l + 1)..(r - 1) : t[p] # " "}
    IN  IF solid = {} THEN <<>>
        ELSE SubSeq(t, CHOOSE p \in solid : \A q \in solid : p <= q,
                       CHOOSE p \in solid : \A q \in solid : q <= p)

NextCut(t, l) == CHOOSE c \in Cuts(t) : c > l /\ \A d \in Cuts(t) : d > l => c <= d

RECURSIVE PiecesFrom(_, _)
PiecesFrom(t, l) ==
    IF l = Len(t) + 1 THEN <<>>
    ELSE <<PieceBetween(t, l, NextCut(t, l))>> \o PiecesFrom(t, NextCut(t, l))

Occurs(piece, text) ==
    \E a \in 1..(Len(text) + 1) : \E b \in 0..Len(text) :
        b - a + 1 = Len(piece) /\ \A q \in 1..Len(piece) : text[a + q - 1] = piece[q]

ExpectedPieces(source_text, target_text) ==
    SelectSeq(PiecesFrom(target_text, 0),
              LAMBDA piece : piece # <<>> /\ Occurs(piece, source_text))

\* C6: for a visited unit that is not excluded, is approved and is not marked
\* translate='no', the matched pieces are the trimmed comma-separated pieces of
\* the target that are non-empty and occur in the source text, in target order,
\* and there is a record (of the comma-split type) iff there is such a piece.
C6_CommaSplit ==
    \A p \in Visited :
        LET u == trans_units[p]
            expected == ExpectedPieces(u.source.text, u.target.text)
        IN  (~Excluded(u) /\ IsApproved(u) /\ ~IsSuppressed(u)) =>
                IF expected = <<>> THEN RecordsOf(p) = <<>>
                ELSE /\ Len(RecordsOf(p)) = 1
                     /\ RecordsOf(p)[1].matching_pieces = expected
                     /\ RecordsOf(p)[1].type = "approved (comma-split)"

\* source 'r, g, b' with target 'v, g' has given exactly the one piece 'g'
C6_Witness ==
    /\ pc = "returned"
    /\ \E p \in Visited :
           /\ trans_units[p].source.text = <<"r", ",", " ", "g", ",", " ", "b">>
           /\ trans_units[p].target.text = <<"v", ",", " ", "g">>
           /\ IsApproved(trans_units[p])
           /\ Len(RecordsOf(p)) = 1
           /\ RecordsOf(p)[1].matching_pieces = << <<"g">> >>

\* C7: for a visited unit with both elements that is not excluded, under
\* (approved, translate='no') or (not approved, translate not 'no') there is a
\* record iff the source text equals the target text; its only piece is that
\* text and its type names the case.
C7_ExactIdentity ==
    \A p \in Visited :
        LET u == trans_units[p]
            same == u.source.text = u.target.text
        IN  (HasBoth(u) /\ ~Excluded(u) /\ (IsApproved(u) <=> IsSuppressed(u))) =>
                IF ~same THEN RecordsOf(p) = <<>>
                ELSE /\ Len(RecordsOf(p)) = 1
                     /\ RecordsOf(p)[1].matching_pieces = <<u.source.text>>
                     /\ RecordsOf(p)[1].type =
                            IF IsApproved(u)
                            THEN "approved + translate=no (identical)"
                            ELSE "not approved (identical)"

\* a finished scan holding a record of each of the two identity cases
C7_Witness ==
    /\ pc = "returned"
    /\ \E r \in Range(results) :
           /\ r.type = "approved + translate=no (identical)"
           /\ IsApproved(trans_units[r.pos]) /\ IsSuppressed(trans_units[r.pos])
    /\ \E r \in Range(results) :
           /\ r.type = "not approved (identical)"
           /\ ~IsApproved(trans_units[r.pos]) /\ ~IsSuppressed(trans_units[r.pos])

\* C8: a unit that is not approved and is marked translate='no' never has a
\* record, and no unit has more than one record.
C8_FourthCaseSilent ==
    /\ \A p \in Visited :
           (~IsApproved(trans_units[p]) /\ IsSuppressed(trans_units[p]))
               => RecordsOf(p) = <<>>
    /\ \A p \in 1..Len(trans_units) : Len(RecordsOf(p)) <= 1

\* a finished scan that visited an unapproved, suppressed unit with identical
\* source and target that is not excluded otherwise, and recorded another unit
C8_Witness ==
    /\ pc = "returned"
    /\ \E p \in Visited :
           LET u == trans_units[p]
           IN  /\ ~IsApproved(u) /\ IsSuppressed(u)
               /\ HasBoth(u) /\ ~Excluded(u)
               /\ u.source.text = u.target.text
    /\ results # <<>>

\* the place of a rule in the report
RuleRank(type) ==
    IF type = "approved (comma-split)" THEN 1
    ELSE IF type = "approved + translate=no (identical)" THEN 2
    ELSE 3

RuleTypes ==
    {"approved (comma-split)", "approved + translate=no (identical)",
     "not approved (identical)"}

OfType(list, type) == SelectSeq(list, LAMBDA r : r.type = type)

\* C9: the sort that precedes the report takes the results, which are in
\* encounter order, to a list where comma-split records come first, then the
\* approved-identical, then the unapproved-identical ones, and where the records
\* of each rule are the same and in the same order as before.
C9_ReportOrder ==
    [][ pc' = "done" =>
          /\ \A a, b \in 1..Len(results) : a < b => results[a].pos < results[b].pos
          /\ Len(results') = Len(results)
          /\ \A a, b \in 1..Len(results') :
                 a < b => RuleRank(results'[a].type) <= RuleRank(results'[b].type)
          /\ \A type \in RuleTypes : OfType(results', type) = OfType(results, type)
      ]_vars

\* a report of three records: the second unit's comma-split record first, then
\* the two unapproved-identical records of the first and third units in order
C9_Witness ==
    /\ pc = "done"
    /\ Len(results) = 3
    /\ results[1].pos = 2 /\ results[1].type = "approved (comma-split)"
    /\ results[2].pos = 1 /\ results[2].type = "not approved (identical)"
    /\ results[3].pos = 3 /\ results[3].type = "not approved (identical)"

----------------------------------------------------------------------------
(* Properties of comma_lists (SpecComma) and of target suppression         *)

\* the units comma_lists has visited
CommaVisited ==
    IF prog # "comma_lists" THEN {}
    ELSE IF pc = "scan" THEN 1..(unit_index - 1)
    ELSE IF pc = "done" THEN 1..Len(all_trans_units)
    ELSE {}

\* the identifier of a unit: its resname, or its id when it has no resname
Identifier(u) ==
    IF u.resname # NoAttr /\ u.resname # <<>> THEN u.resname
    ELSE IF u.id # NoAttr THEN u.id ELSE <<>>

IsNameUnit(u) ==
    Len(Identifier(u)) > 0 /\ Identifier(u)[Len(Identifier(u))] = "_Name"

\* the number of comma-separated pieces of an element's text: one more than
\* the number of its commas
PieceCount(element) ==
    IF ~element.present THEN 1
    ELSE Cardinality({p \in 1..Len(element.text) : element.text[p] = ","})
         + Cardinality({p \in 1..Len(element.rest) : element.rest[p] = ","}) + 1

IncreasedOf(p) == SelectSeq(increased_results, LAMBDA r : r.pos = p)
DecreasedOf(p) == SelectSeq(decreased_results, LAMBDA r : r.pos = p)

InEncounterOrder(list) ==
    \A a, b \in 1..Len(list) : a < b => list[a].pos < list[b].pos

\* C10: a visited '_Name' unit has a record iff its source and target piece
\* counts differ, in the 'target longer' bucket iff the target has more pieces
\* and in the 'target shorter' bucket iff it has fewer, never in both; other
\* units have none; and each bucket is in encounter order.
C10_Buckets ==
    /\ \A p \in CommaVisited :
           LET u == all_trans_units[p]
               sourceCount == PieceCount(u.source)
               targetCount == PieceCount(u.target)
               counted(list) ==
                   /\ Len(list) = 1
                   /\ list[1].source_count = sourceCount
                   /\ list[1].target_count = targetCount
           IN  IF ~IsNameUnit(u) \/ sourceCount = targetCount
               THEN IncreasedOf(p) = <<>> /\ DecreasedOf(p) = <<>>
               ELSE IF targetCount > sourceCount
               THEN counted(IncreasedOf(p)) /\ DecreasedOf(p) = <<>>
               ELSE counted(DecreasedOf(p)) /\ IncreasedOf(p) = <<>>
    /\ \A r \in Range(increased_results) \cup Range(decreased_results) :
           r.pos \in CommaVisited
    /\ InEncounterOrder(increased_results)
    /\ InEncounterOrder(decreased_results)

\* a finished run over 'a' / 'a, b' and twice 'a, b, c' / 'x, y': one 'target
\* longer' record of 1 and 2 pieces, two 'target shorter' records of 3 and 2
C10_Witness ==
    /\ prog = "comma_lists" /\ pc = "done"
    /\ Len(increased_results) = 1
    /\ increased_results[1].name_source = <<"a">>
    /\ increased_results[1].name_target = <<"a", ",", " ", "b">>
    /\ increased_results[1].source_count = 1
    /\ increased_results[1].target_count = 2
    /\ Len(decreased_results) = 2
    /\ \A j \in 1..2 :
           /\ decreased_results[j].name_source = <<"a", ",", " ", "b", ",", " ", "c">>
           /\ decreased_results[j].name_target = <<"x", ",", " ", "y">>
           /\ decreased_results[j].source_count = 3
           /\ decreased_results[j].target_count = 2

\* an element without text: it is absent, or holds nothing but blanks
TextEmpty(element) ==
    \/ ~element.present
    \/ \A c \in Range(element.text) \cup Range(element.rest) : c = " "

\* the number of commas in the text of an element
CommaCount(element) ==
    IF ~element.present THEN 0
    ELSE Cardinality({p \in 1..Len(element.text) : element.text[p] = ","})
         + Cardinality({p \in 1..Len(element.rest) : element.rest[p] = ","})

\* C11: an empty or missing text counts as one piece.  A visited '_Name' unit
\* whose target is empty or absent has no record when its source has no comma,
\* and otherwise exactly one 'target shorter' record with source_count the
\* number of source items and target_count 1; likewise an empty or absent
\* source counts 1 against the target.
C11_EmptyIsOnePiece ==
    \A p \in CommaVisited :
        LET u == all_trans_units[p]
        IN  /\ (IsNameUnit(u) /\ TextEmpty(u.target)) =>
                   /\ IncreasedOf(p) = <<>>
                   /\ IF CommaCount(u.source) = 0 THEN DecreasedOf(p) = <<>>
                      ELSE /\ Len(DecreasedOf(p)) = 1
                           /\ DecreasedOf(p)[1].source_count = CommaCount(u.source) + 1
                           /\ DecreasedOf(p)[1].target_count = 1
                           /\ DecreasedOf(p)[1].name_target = <<>>
            /\ (IsNameUnit(u) /\ TextEmpty(u.source)) =>
                   /\ DecreasedOf(p) = <<>>
                   /\ IF CommaCount(u.target) = 0 THEN IncreasedOf(p) = <<>>
                      ELSE /\ Len(IncreasedOf(p)) = 1
                           /\ IncreasedOf(p)[1].source_count = 1
                           /\ IncreasedOf(p)[1].target_count = CommaCount(u.target) + 1

\* a finished run over source 'a' with an empty target, which left no record,
\* and source 'a, b' with no target element, recorded as 2 pieces against 1
C11_Witness ==
    /\ prog = "comma_lists" /\ pc = "done"
    /\ Len(all_trans_units) = 2
    /\ all_trans_units[1].source.text = <<"a">>
    /\ all_trans_units[1].target.present
    /\ all_trans_units[1].target.text = <<>>
    /\ ~all_trans_units[2].target.present
    /\ increased_results = <<>>
    /\ Len(decreased_results) = 1
    /\ decreased_results[1].pos = 2
    /\ decreased_results[1].source_count = 2
    /\ decreased_results[1].target_count = 1

\* comma_lists counts a needs-translation target as one empty piece
CommaSuppresses ==
    \A p \in CommaVisited :
        LET u == all_trans_units[p]
        IN  (IsNameUnit(u) /\ NeedsTranslation(u)) =>
                /\ IncreasedOf(p) = <<>>
                /\ IF PieceCount(u.source) = 1 THEN DecreasedOf(p) = <<>>
                   ELSE /\ Len(DecreasedOf(p)) = 1
                        /\ DecreasedOf(p)[1].target_count = 1
                        /\ DecreasedOf(p)[1].name_target = <<>>

\* the target element of the unit a row of extract_data was taken from
RowTarget(r) ==
    IF pattern_type \in {"name", "name_with_desc"}
    THEN NameTarget(extract_file.domains[r.group][2])
    ELSE DescTarget(extract_file.domains[r.group][2])

\* the target column of a row
RowTargetText(r) ==
    IF pattern_type = "description_with_name" THEN r.row[4] ELSE r.row[3]

\* extract_data gives an empty target for a needs-translation target
ExtractSuppresses ==
    \A r \in Range(extract_results) :
        (/\ extract_file.layout = "domains"
         /\ pattern_type # "question"
         /\ RowTarget(r).state = "needs-translation")
            => RowTargetText(r) = <<>>

\* C4: outside identical-translation detection, whatever reads a target text
\* takes it as empty when the target state is 'needs-translation': the
\* snapshots of parse_xlf_file, the list-length check of comma_lists, and the
\* rows of extract_data.
C4_SuppressedEverywhere ==
    /\ C3_NeedsTranslationEmpty
    /\ CommaSuppresses
    /\ ExtractSuppresses

----------------------------------------------------------------------------
(* Properties of group resolution (SpecResolve): parse_xlf_file and        *)
(* extract_data over documents of any shape                                *)

\* the places of the nodes below a node, each a sequence of child indices
RECURSIVE PathsBelow(_)
PathsBelow(node) ==
    UNION { {<<j>>} \cup {<<j>> \o p : p \in PathsBelow(node.kids[j])} :
            j \in 1..Len(node.kids) }

RECURSIVE NodeAt(_, _)
NodeAt(node, path) ==
    IF path = <<>> THEN node ELSE NodeAt(node.kids[Head(path)], Tail(path))

\* document order of two places
RECURSIVE PathBefore(_, _)
PathBefore(p, q) ==
    IF p = <<>> THEN q # <<>>
    ELSE IF q = <<>> THEN FALSE
    ELSE IF Head(p) = Head(q) THEN PathBefore(Tail(p), Tail(q))
    ELSE Head(p) < Head(q)

\* a set of places as a list in document order
RECURSIVE InDocumentOrder(_)
InDocumentOrder(P) ==
    IF P = {} THEN <<>>
    ELSE LET first == CHOOSE p \in P : \A q \in P \ {p} : PathBefore(p, q)
         IN  <<first>> \o InDocumentOrder(P \ {first})

LocalName(node) == node.tag[Len(node.tag)]
IsGroupNode(node) == LocalName(node) = "group"
IsUnitNode(node) == LocalName(node) = "trans-unit"
IdOf(node) == IF node.id = NoAttr THEN <<>> ELSE node.id

\* a group qualifies: one of its direct children has 'guid' in its tag name
Qualifies(node) ==
    /\ IsGroupNode(node)
    /\ \E j \in 1..Len(node.kids) : "guid" \in Range(node.kids[j].tag)

\* the qualifying groups of a document, wherever they are, in document order
QualifyingGroups(root) ==
    LET places == InDocumentOrder({p \in PathsBelow(root) : Qualifies(NodeAt(root, p))})
    IN  [j \in 1..Len(places) |-> NodeAt(root, places[j])]

\* the document the running program reads
ResolveInput ==
    ResolveDocument(IF prog = "parse_xlf_file" THEN input_file ELSE extract_file)

\* the groups the running program has selected
SelectedGroups == IF prog = "parse_xlf_file" THEN parse_groups ELSE target_groups

\* C12: the groups selected by parse_xlf_file and by extract_data are exactly
\* the groups, at any depth, with a direct child whose tag contains 'guid', in
\* document order; and the snapshot parse_xlf_file returns has exactly their
\* identifiers as keys and as group order.
C12_GuidSelection ==
    /\ (prog \in {"parse_xlf_file", "extract_xlf"} /\ pc # "start") =>
           SelectedGroups = QualifyingGroups(ResolveInput)
    /\ (prog = "parse_xlf_file" /\ pc = "done") =>
           LET qualifying == QualifyingGroups(ResolveInput)
           IN  /\ parse_order = [j \in 1..Len(qualifying) |-> IdOf(qualifying[j])]
               /\ DOMAIN parse_data = Range(parse_order)

\* a snapshot of a document whose outer group has no marker but holds two
\* marked groups two levels down: the outer group is left out, the two inner
\* ones are resolved
C12_Witness ==
    /\ prog = "parse_xlf_file" /\ pc = "done"
    /\ input_file.marker = "none"
    /\ input_file.parts = <<"name", "inner", "subdomain">>
    /\ parse_order = << <<"1", ".1">>, <<"1", ".2">> >>
    /\ <<"1">> \notin DOMAIN parse_data

\* the places, below a group, of its effective children: the translation units
\* that are direct children, and those anywhere below a direct child group
\* whose id does not contain '_SubPos'
EffectivePlaces(group) ==
    {p \in PathsBelow(group) :
        /\ IsUnitNode(NodeAt(group, p))
        /\ \/ Len(p) = 1
           \/ /\ IsGroupNode(group.kids[p[1]])
              /\ "_SubPos" \notin Range(IdOf(group.kids[p[1]]))}

\* an identifier ends in the tokens of suffix
EndsIn(id, suffix) ==
    /\ Len(id) >= Len(suffix)
    /\ \A q \in 1..Len(suffix) : id[Len(id) - Len(suffix) + q] = suffix[q]

\* an identifier ends in _Qs_<digits>_Q
IsQuestionId(id) ==
    Len(id) >= 3 /\ id[Len(id)] = "_Q" /\ id[Len(id) - 2] = "_Qs_"

\* what an identifier must look like to be of a field
FieldIds == {"abbr", "name", "desc", "question"}

IsOfField(id, field) ==
    CASE field = "abbr" -> EndsIn(id, <<"_Abbr">>)
      [] field = "name" -> EndsIn(id, <<"_Name">>)
      [] field = "desc" -> EndsIn(id, <<"_Desc", "_0">>)
      [] field = "question" -> IsQuestionId(id)

\* the effective children of a group that are of a field
PlacesOfField(group, field) ==
    {p \in EffectivePlaces(group) : IsOfField(IdOf(NodeAt(group, p)), field)}

\* the source texts of the units at some places of a group
SourcesAt(group, places) == {ExtractText(NodeAt(group, p).source) : p \in places}

\* a resolved value comes from one of the candidates, and is empty without any
TakenFrom(value, candidates) ==
    IF candidates = {} THEN value = <<>> ELSE value \in candidates

\* the groups parse_xlf_file has resolved so far
ParseVisited ==
    IF prog # "parse_xlf_file" THEN {}
    ELSE IF pc = "groups" THEN 1..(parse_index - 1)
    ELSE IF pc = "done" THEN 1..Len(parse_groups)
    ELSE {}

\* the entry of the snapshot still is the one the j-th group wrote
StillRecorded(j) ==
    \A m \in ParseVisited : m > j => IdOf(parse_groups[m]) # IdOf(parse_groups[j])

\* the groups extract_data has gone through so far
ExtractVisited ==
    IF prog # "extract_xlf" THEN {}
    ELSE IF pc = "groups" THEN 1..(group_index - 1)
    ELSE IF pc = "done" THEN 1..Len(target_groups)
    ELSE {}

\* the field extract_data was asked for, and the field of its extra column
WantedField ==
    IF pattern_type \in {"name", "name_with_desc"} THEN "name"
    ELSE IF pattern_type = "question" THEN "question" ELSE "desc"

ExtraField == IF pattern_type = "name_with_desc" THEN "desc" ELSE "name"

HasExtraColumn == pattern_type \in {"name_with_desc", "description_with_name"}

\* the columns of a row
RowAbbr(r) == r.row[1]
RowSource(r) == IF pattern_type = "description_with_name" THEN r.row[3] ELSE r.row[2]
RowExtra(r) == IF pattern_type = "description_with_name" THEN r.row[2] ELSE r.row[4]

\* C13: the abbreviation, name and description sources of a resolved group, and
\* the source and extra column of an extracted row, are taken from effective children of
\* the group (direct units, and units below direct child groups that are not
\* _SubPos groups) and are empty when no effective child is of the field; a
\* group has a row iff an effective child is of the wanted field.
C13_EffectiveChildren ==
    /\ \A j \in ParseVisited :
           LET group == parse_groups[j]
               d == parse_data[IdOf(group)]
           IN  StillRecorded(j) =>
                   /\ TakenFrom(d.abbr,
                                SourcesAt(group, PlacesOfField(group, "abbr")))
                   /\ TakenFrom(d.name_source,
                                SourcesAt(group, PlacesOfField(group, "name")))
                   /\ TakenFrom(d.desc_source,
                                SourcesAt(group, PlacesOfField(group, "desc")))
    /\ \A r \in Range(extract_results) :
           LET group == target_groups[r.group]
           IN  /\ PlacesOfField(group, WantedField) # {}
               /\ RowSource(r) \in SourcesAt(group, PlacesOfField(group, WantedField))
               /\ HasExtraColumn =>
                      TakenFrom(RowExtra(r),
                                SourcesAt(group, PlacesOfField(group, ExtraField)))
    /\ \A g \in ExtractVisited :
           PlacesOfField(target_groups[g], WantedField) # {}
               => \E r \in Range(extract_results) : r.group = g

\* the snapshot of a group with a direct _Name unit, then a _SubPos group
\* holding _Abbr, _Name and _Desc_0 units, then a _Desc group with a _Desc_0
\* unit: name and description come from the first and third child, and the
\* abbreviation stays empty
C13_Witness ==
    /\ prog = "parse_xlf_file" /\ pc = "done"
    /\ input_file.marker = "guid"
    /\ input_file.parts = <<"name", "subpos", "desc">>
    /\ parse_data[<<"1">>].name_source = <<"n", "1">>
    /\ parse_data[<<"1">>].desc_source = <<"d", "3">>
    /\ parse_data[<<"1">>].abbr = <<>>

\* the last of a set of places in document order
LastPlace(places) == CHOOSE p \in places : \A q \in places \ {p} : PathBefore(q, p)

\* the unit a field takes its values from under last-writer-wins
LastUnit(group, places) == NodeAt(group, LastPlace(places))

\* no effective child is of the field, or the one resolved has no target
LacksUnit(group, field) == PlacesOfField(group, field) = {}

LacksTarget(group, field) ==
    \/ LacksUnit(group, field)
    \/ ~LastUnit(group, PlacesOfField(group, field)).target.present

\* C18: every qualifying group gets an entry in the snapshot and a place in the
\* group order, whatever it lacks; the members of a field no effective child is
\* of are empty, and a resolved unit without target element leaves target text
\* and state of its field empty.
C18_MissingFieldsEmpty ==
    /\ Len(parse_order) = Cardinality(ParseVisited)
    /\ \A j \in ParseVisited :
           LET group == parse_groups[j]
           IN  /\ parse_order[j] = IdOf(group)
               /\ IdOf(group) \in DOMAIN parse_data
               /\ StillRecorded(j) =>
                      LET d == parse_data[IdOf(group)]
                      IN  /\ LacksUnit(group, "abbr") => d.abbr = <<>>
                          /\ LacksUnit(group, "name") => d.name_source = <<>>
                          /\ LacksUnit(group, "desc") => d.desc_source = <<>>
                          /\ LacksTarget(group, "name") =>
                                 d.name_target = <<>> /\ d.name_target_state = ""
                          /\ LacksTarget(group, "desc") =>
                                 d.desc_target = <<>> /\ d.desc_target_state = ""

\* the snapshot of a group that holds its marker and a _Name unit without
\* target element: the group is entered with its name source, every other
\* member empty
C18_Witness ==
    /\ prog = "parse_xlf_file" /\ pc = "done"
    /\ input_file.marker = "guid"
    /\ input_file.parts = <<"barename">>
    /\ parse_order = << <<"1">> >>
    /\ parse_data[<<"1">>] =
           [abbr |-> <<>>, name_source |-> <<"m", "1">>, name_target |-> <<>>,
            name_target_state |-> "", desc_source |-> <<>>, desc_target |-> <<>>,
            desc_target_state |-> ""]

\* the rows of the g-th group
RowsOfGroup(g) == SelectSeq(extract_results, LAMBDA r : r.group = g)

\* the visited groups without an effective child of the wanted field
MissingGroups ==
    {g \in ExtractVisited : PlacesOfField(target_groups[g], WantedField) = {}}

\* C19: every group extract_data has gone through has either exactly one row
\* (iff an effective child is of the wanted field) or is counted as missing,
\* never both; rows plus missing count is the number of groups gone through,
\* and at the end the number of qualifying groups of the document; the rows
\* are in group document order.
C19_RowsPlusMissing ==
    prog = "extract_xlf" =>
        /\ \A g \in ExtractVisited :
               Len(RowsOfGroup(g)) = IF g \in MissingGroups THEN 0 ELSE 1
        /\ \A r \in Range(extract_results) : r.group \in ExtractVisited
        /\ missing_count = Cardinality(MissingGroups)
        /\ Len(extract_results) + missing_count = Cardinality(ExtractVisited)
        /\ \A a, b \in 1..Len(extract_results) :
               a < b => extract_results[a].group < extract_results[b].group
        /\ pc = "done" =>
               Len(extract_results) + missing_count
                   = Len(QualifyingGroups(ResolveDocument(extract_file)))

\* a finished extraction over two groups where the first lacked the wanted
\* element and the second gave a row
C19_Witness ==
    /\ prog = "extract_xlf" /\ pc = "done"
    /\ Len(target_groups) = 2
    /\ missing_count = 1
    /\ Len(extract_results) = 1
    /\ extract_results[1].group = 2

\* the direct children of a group that are units of the abbreviation field
DirectAbbrPlaces(group) == {p \in PlacesOfField(group, "abbr") : Len(p) = 1}

\* the abbreviation of a snapshot entry comes from a direct _Abbr child
ParseAbbrDirect ==
    \A j \in ParseVisited :
        LET group == parse_groups[j]
        IN  StillRecorded(j) =>
                TakenFrom(parse_data[IdOf(group)].abbr,
                          SourcesAt(group, DirectAbbrPlaces(group)))

\* the abbreviation of an extracted row comes from a direct _Abbr child
ExtractAbbrDirect ==
    \A r \in Range(extract_results) :
        LET group == target_groups[r.group]
        IN  TakenFrom(RowAbbr(r), SourcesAt(group, DirectAbbrPlaces(group)))

\* C14: the abbreviation resolved for a group, in the snapshot of
\* parse_xlf_file and in the rows of extract_data, is the source text of a
\* direct child of the group whose id ends in '_Abbr', and is empty when the
\* group has no such direct child.
C14_AbbrFromDirectChild == ParseAbbrDirect /\ ExtractAbbrDirect

LastSource(group, places) ==
    IF places = {} THEN <<>> ELSE ExtractText(LastUnit(group, places).source)

LastTarget(group, places) ==
    IF places = {} THEN <<>> ELSE ExtractText(LastUnit(group, places).target)

\* every field of a snapshot entry is that of its last matching effective child
ParseLastWins ==
    \A j \in ParseVisited :
        LET group == parse_groups[j]
            d == parse_data[IdOf(group)]
        IN  StillRecorded(j) =>
                /\ d.abbr = LastSource(group, PlacesOfField(group, "abbr"))
                /\ d.name_source = LastSource(group, PlacesOfField(group, "name"))
                /\ d.desc_source = LastSource(group, PlacesOfField(group, "desc"))
                /\ d.name_target_state # "needs-translation" =>
                       d.name_target = LastTarget(group, PlacesOfField(group, "name"))
                /\ d.desc_target_state # "needs-translation" =>
                       d.desc_target = LastTarget(group, PlacesOfField(group, "desc"))

\* source, target and extra column of a row are those of the last matching
\* effective child
ExtractLastWins ==
    \A r \in Range(extract_results) :
        LET group == target_groups[r.group]
        IN  /\ RowSource(r) = LastSource(group, PlacesOfField(group, WantedField))
            /\ RowTargetText(r) = LastTarget(group, PlacesOfField(group, WantedField))
            /\ HasExtraColumn =>
                   RowExtra(r) = LastSource(group, PlacesOfField(group, ExtraField))

\* the abbreviation of a row is that of the last direct _Abbr child
ExtractAbbrLastWins ==
    \A r \in Range(extract_results) :
        LET group == target_groups[r.group]
        IN  RowAbbr(r) = LastSource(group, DirectAbbrPlaces(group))

\* C15: when several effective children of a group are of the same field
\* ('_Abbr', '_Name', '_Desc_0', '_Qs_<digits>_Q'), the field resolved by
\* parse_xlf_file and by extract_data has the values of the last of them in
\* document order.
C15_LastWriterWins == ParseLastWins /\ ExtractLastWins /\ ExtractAbbrLastWins

----------------------------------------------------------------------------
(* Properties of namespace handling (Spec)                                 *)

\* the same tree with every element of the document's namespace moved to
\* namespace ns; elements of the sil namespace stay where they are
RECURSIVE InNamespace(_, _)
InNamespace(node, ns) ==
    [node EXCEPT
        !.tag = IF SilNs \in Range(node.tag) THEN node.tag
                ELSE QTag(ns, LocalName(node)),
        !.kids = [j \in 1..Len(node.kids) |-> InNamespace(node.kids[j], ns)]]

\* the translation units of a document, whatever their namespace
UnitsByLocalName(root) ==
    LET places == InDocumentOrder({p \in PathsBelow(root) : IsUnitNode(NodeAt(root, p))})
    IN  [j \in 1..Len(places) |-> NodeAt(root, places[j])]

\* the records of find_identical_translations over a list of units
RECURSIVE RecordsFrom(_, _)
RecordsFrom(units, j) ==
    IF j > Len(units) THEN <<>>
    ELSE UnitRecords(units[j], j) \o RecordsFrom(units, j + 1)

\* find_identical_translations returns what it returns for the same document
\* in the XLIFF 1.2 namespace
IdentNamespaceBlind ==
    (prog = "find_identical_translations" /\ pc = "returned") =>
        results = RecordsFrom(
                      UnitsByLocalName(InNamespace(IdentDocument(xliff_file), IdentNs)), 1)

\* comma_lists goes through all translation units of the document
CommaNamespaceBlind ==
    (prog = "comma_lists" /\ pc # "start") =>
        all_trans_units = UnitsByLocalName(CommaDocument(comma_file))

\* parse_xlf_file returns what it returns for the same document in the XLIFF
\* 1.2 namespace
ParseNamespaceBlind ==
    (prog = "parse_xlf_file" /\ pc = "done") =>
        LET twin == ParseXlfFile(InNamespace(ResolveDocument(input_file), XliffNs))
        IN  parse_data = twin.data /\ parse_order = twin.group_order

\* extract_data selects the groups it selects in the same document in the
\* XLIFF 1.2 namespace
ExtractNamespaceBlind ==
    (prog = "extract_xlf" /\ pc # "start") =>
        [j \in 1..Len(target_groups) |-> InNamespace(target_groups[j], XliffNs)]
            = TargetGroups(InNamespace(ResolveDocument(extract_file), XliffNs))

\* C16: the records produced do not depend on the namespace of the document:
\* a document without a namespace declaration, or in another namespace, gives
\* the results of the same document in the XLIFF 1.2 namespace, for
\* find_identical_translations, comma_lists, parse_xlf_file and extract_data.
C16_NamespaceBlind ==
    /\ IdentNamespaceBlind
    /\ CommaNamespaceBlind
    /\ ParseNamespaceBlind
    /\ ExtractNamespaceBlind

-----------------------------------------------------------------------------
(* Properties of sort_comparisons (SpecSort)                               *)

\* the rows confirmed so far, as 0-based indices
ConfirmedRows == DOMAIN row_groups

\* the session is at one of the prompts of get_user_choice
AtPrompt == prog = "sort_comparisons" /\ pc \in {"prompt", "confirm", "name"}

\* the operator answered the group prompt with Enter and then declined to end
\* the session: the "skip" of the prompt "(or Enter to skip/end)"
SkipsRow ==
    prog = "sort_comparisons" /\ pc = "confirm" /\ pc' \notin {"write", "exit0"}

\* C21: the operator can confirm a row with zero labels and proceed: a row that
\* is skipped (Enter at the group prompt, then an answer that declines to end
\* the session) is confirmed with an empty membership set, and the session
\* moves on to the next row.
C21_ZeroLabels ==
    [][SkipsRow =>
          /\ row_index' = row_index + 1
          /\ row_index \in DOMAIN row_groups'
          /\ row_groups'[row_index] = {}]_vars

\* what the program does instead: every confirmed row has at least one label
C21_NoRowWithoutLabels ==
    prog = "sort_comparisons" => \A x \in ConfirmedRows : row_groups[x] # {}

\* rows are confirmed with one label and with several
C21_OneAndSeveral ==
    /\ prog = "sort_comparisons"
    /\ \E x \in ConfirmedRows : Cardinality(row_groups[x]) = 1
    /\ \E x \in ConfirmedRows : Cardinality(row_groups[x]) > 1

\* A written line, read by its columns: the cells lie between the tabs, and the
\* line closes with a newline.
TabsIn(line) == {p \in 1..Len(line) : line[p] = Tab}

ColumnCount(line) == Cardinality(TabsIn(line)) + 1

\* where the n-th cell ends: at the n-th tab or, for the last cell, at the newline
CellEnd(line, n) ==
    IF n > Cardinality(TabsIn(line)) THEN Len(line)
    ELSE CHOOSE p \in TabsIn(line) : Cardinality({q \in TabsIn(line) : q <= p}) = n

CellStart(line, n) == IF n = 1 THEN 1 ELSE CellEnd(line, n - 1) + 1

Cell(line, n) == SubSeq(line, CellStart(line, n), CellEnd(line, n) - 1)

\* the output file has been written
SortDone == prog = "sort_comparisons" /\ pc = "done"

\* the columns of the input file, and the membership columns after them
OriginalColumns == ColumnCount(sort_file[1])

LabelColumns == (OriginalColumns + 1)..ColumnCount(written[1])

LabelOf(c) == Cell(written[1], c)

\* the labels assigned to at least one processed row
AssignedLabels == UNION {row_groups[x] : x \in ConfirmedRows}

\* the output rows, as 0-based row indices; row x is line x + 2 of the output
OutputRows == 0..(Len(written) - 2)

\* the membership columns are the assigned labels, each once
C22_Columns ==
    SortDone =>
        /\ \A label \in AssignedLabels : \E c \in LabelColumns : LabelOf(c) = label
        /\ \A c \in LabelColumns : LabelOf(c) \in AssignedLabels
        /\ \A c, d \in LabelColumns : LabelOf(c) = LabelOf(d) => c = d

\* in every output row, the cell in the column of a label tells whether the row
\* was assigned the label
C22_Cells ==
    SortDone =>
        \A x \in OutputRows : \A c \in LabelColumns :
            /\ c <= ColumnCount(written[x + 2])
            /\ Cell(written[x + 2], c) =
                   IF x \in ConfirmedRows /\ LabelOf(c) \in row_groups[x]
                   THEN <<"1">> ELSE <<"0">>

\* C22: the output has, after the original header columns, exactly one
\* membership column per distinct label assigned to at least one processed row
\* (none for a label never used, one only for a label that two shortcuts carry),
\* and in every output row the cell under a label is '1' iff the row was
\* assigned that label and '0' otherwise.
C22_MembershipColumns == C22_Columns /\ C22_Cells

\* a label carried by two shortcuts was assigned through both, another label
\* was never used, and the output is written
C22_ColumnsReached ==
    /\ SortDone
    /\ \E c, d \in DOMAIN group_chars :
           c # d /\ group_chars[c] = group_chars[d] /\ group_chars[c] \in AssignedLabels
    /\ Cardinality(AssignedLabels) > 1

\* the rows that kept all their cells have their membership cells in place
C22_CellsOfWholeRows ==
    SortDone =>
        \A x \in OutputRows :
            Len(sort_data[x + 1]) = OriginalColumns =>
                \A c \in LabelColumns :
                    Cell(written[x + 2], c) =
                        IF x \in ConfirmedRows /\ LabelOf(c) \in row_groups[x]
                        THEN <<"1">> ELSE <<"0">>

\* The rows of the input file, read off the file itself: the lines after the
\* header that hold more than blanks, each without its outer blanks.
Solid(line) == {p \in 1..Len(line) : line[p] \notin {" ", Tab, Newline}}

InputRows == SelectSeq(Tail(sort_file), LAMBDA line : Solid(line) # {})

Trimmed(line) ==
    SubSeq(line, CHOOSE p \in Solid(line) : \A q \in Solid(line) : p <= q,
                 CHOOSE p \in Solid(line) : \A q \in Solid(line) : q <= p)

\* the session is over: the output is written, or the input stream has ended
SessionOver == prog = "sort_comparisons" /\ pc \in {"done", "exit0"}

\* output row x is input row x, followed by one membership cell per label column
IsRowWithMemberships(line, x) ==
    LET row == Trimmed(InputRows[x + 1])
        n == ColumnCount(written[1]) - OriginalColumns
    IN  /\ Len(line) = Len(row) + 2 * n + 1
        /\ SubSeq(line, 1, Len(row)) = row
        /\ \A j \in 1..n :
               /\ line[Len(row) + 2 * j - 1] = Tab
               /\ line[Len(row) + 2 * j] =
                      IF LabelOf(OriginalColumns + j) \in row_groups[x]
                      THEN "1" ELSE "0"
        /\ line[Len(line)] = Newline

\* when the session is over the output is written
C23_StillWritten == SessionOver => written # None

\* a written output holds the confirmed rows and no others, in input order,
\* each with its memberships
C23_ConfirmedRowsOnly ==
    (prog = "sort_comparisons" /\ written # None) =>
        /\ Len(written) = Cardinality(ConfirmedRows) + 1
        /\ ConfirmedRows = 0..(Len(written) - 2)
        /\ \A x \in ConfirmedRows : IsRowWithMemberships(written[x + 2], x)

\* C23: whenever the session ends early after k rows were confirmed (by the
\* double-Enter path or by the end of the input stream), the output is written
\* and holds exactly those k rows, in input order, with their memberships; the
\* rows not yet classified are not written.
C23_PartialResults == C23_StillWritten /\ C23_ConfirmedRowsOnly

\* the double-Enter path was taken after two of three rows, and the output is
\* written
C23_EndedEarlyReached ==
    /\ SortDone
    /\ Cardinality(ConfirmedRows) = 2
    /\ Len(InputRows) = 3

\* output row x has the cells of input row x in its first columns
KeepsCells(x) ==
    \A c \in 1..OriginalColumns :
        /\ c <= ColumnCount(written[x + 2])
        /\ Cell(written[x + 2], c) = Cell(InputRows[x + 1], c)

\* C24: each output row is the cells of its input row, unchanged, followed by
\* one membership cell per used label, so every output row has as many columns
\* as the output header; this holds also for input rows whose last cells are
\* empty.
C24_RowShape ==
    SortDone =>
        \A x \in OutputRows :
            /\ ColumnCount(written[x + 2]) = ColumnCount(written[1])
            /\ KeepsCells(x)

\* the rows whose first and last cells are not empty keep their shape
C24_ShapeOfFullRows ==
    SortDone =>
        \A x \in OutputRows :
            (Head(InputRows[x + 1]) # Tab
                /\ InputRows[x + 1][Len(InputRows[x + 1]) - 1] # Tab) =>
                    /\ ColumnCount(written[x + 2]) = ColumnCount(written[1])
                    /\ KeepsCells(x)

\* a full row was written with its membership cells
C24_FullRowReached ==
    /\ SortDone
    /\ AssignedLabels # {}
    /\ \E x \in OutputRows : ColumnCount(InputRows[x + 1]) = OriginalColumns
           /\ Head(InputRows[x + 1]) # Tab
           /\ InputRows[x + 1][Len(InputRows[x + 1]) - 1] # Tab

-----------------------------------------------------------------------------
(* Properties of repeated group identifiers (SpecDiff)                     *)

\* where the domains with group identifier g stand in a file
PositionsOf(file, g) == {j \in 1..Len(file) : <<file[j][1]>> = g}

\* what the last domain with group identifier g resolves to when it stands
\* alone in a document
LastAlone(file, g) == Parsed[<< <<g[1], LastVersion(file, g)>> >>].data[g]

\* the ChangeRecords of group identifier g, as positions in the output
RecordsAbout(g) == {j \in 1..Len(emitted) : emitted[j] = g}

\* C25: when a group identifier occurs k times in the newer document, the
\* snapshot keeps the fields of the last group with the identifier, the group
\* order holds the identifier k times, and compare_files gives k identical
\* ChangeRecords for it when it differs from the older snapshot (and none
\* otherwise).
C25_RepeatedIds ==
    (prog = "compare_xlf" /\ pc \in {"compare", "done"}) =>
        \A g \in DOMAIN data2 :
            /\ data2[g] = LastAlone(file2, g)
            /\ Cardinality({j \in 1..Len(order2) : order2[j] = g})
                   = Cardinality(PositionsOf(file2, g))
            /\ pc = "done" =>
                   /\ Cardinality(RecordsAbout(g)) =
                          IF MustAppear(g) THEN Cardinality(PositionsOf(file2, g))
                          ELSE 0
                   /\ \A a, b \in RecordsAbout(g) : changes[a] = changes[b]

\* a finished run on a newer file that holds one identifier twice, in two
\* different versions, with two records for it
C25_Witness ==
    /\ prog = "compare_xlf"
    /\ pc = "done"
    /\ Len(file2) = 2
    /\ file2[1][1] = file2[2][1]
    /\ file2[1][2] # file2[2][2]
    /\ Len(changes) = 2
    /\ changes[1] = changes[2]
    /\ Parsed[<<file2[1]>>].data # Parsed[<<file2[2]>>].data

-----------------------------------------------------------------------------
(* Properties of the recursion into child groups (SpecResolve)             *)

\* the translation units of a field anywhere below a group
UnitPlaces(group, field) ==
    {p \in PathsBelow(group) :
        IsUnitNode(NodeAt(group, p)) /\ IsOfField(IdOf(NodeAt(group, p)), field)}

\* a place lies below a direct child group that is not a _SubPos group
BelowOpenChild(group, p) ==
    /\ Len(p) > 1
    /\ IsGroupNode(group.kids[p[1]])
    /\ "_SubPos" \notin Range(IdOf(group.kids[p[1]]))

\* the groups between such a direct child and the unit at place p
GroupsAbove(group, p) == {NodeAt(group, SubSeq(p, 1, m)) : m \in 2..(Len(p) - 1)}

\* the units of a field that lie, below such a direct child, inside a deeper
\* _SubPos group or inside a nested qualifying group
DeepPlaces(group, field) ==
    {p \in UnitPlaces(group, field) :
        /\ BelowOpenChild(group, p)
        /\ \E n \in GroupsAbove(group, p) :
               "_SubPos" \in Range(IdOf(n)) \/ Qualifies(n)}

\* no direct unit and no unit below such a direct child comes after place p
IsLastOfField(group, field, p) ==
    \A q \in UnitPlaces(group, field) :
        (Len(q) = 1 \/ BelowOpenChild(group, q)) => ~PathBefore(p, q)

SourceAt(group, p) == ExtractText(NodeAt(group, p).source)

\* the source a snapshot entry records for a field
RecordedSource(d, field) == IF field = "name" THEN d.name_source ELSE d.desc_source

\* the places below a group of the qualifying groups nested below such a child
NestedQualifying(group) ==
    {q \in PathsBelow(group) : BelowOpenChild(group, q) /\ Qualifies(NodeAt(group, q))}

\* a deep unit that is the last of its field is the one parse_xlf_file records
ParseDeepUnits ==
    \A j \in ParseVisited : \A field \in {"name", "desc"} :
        LET group == parse_groups[j]
        IN  StillRecorded(j) =>
                \A p \in DeepPlaces(group, field) :
                    IsLastOfField(group, field, p) =>
                        RecordedSource(parse_data[IdOf(group)], field)
                            = SourceAt(group, p)

\* a unit of a nested qualifying group that is the last of its field in the
\* enclosing group is recorded in the entries of both groups
ParseBothEntries ==
    \A j, m \in ParseVisited : \A field \in {"name", "desc"} :
        LET group == parse_groups[j]
            inner == parse_groups[m]
        IN  (StillRecorded(j) /\ StillRecorded(m)) =>
                \A q \in NestedQualifying(group) : \A p \in UnitPlaces(group, field) :
                    (/\ NodeAt(group, q) = inner
                     /\ Len(p) > Len(q)
                     /\ SubSeq(p, 1, Len(q)) = q
                     /\ SubSeq(p, Len(q) + 1, Len(p)) \in PlacesOfField(inner, field)
                     /\ IsLastOfField(group, field, p)) =>
                        /\ RecordedSource(parse_data[IdOf(group)], field)
                               = SourceAt(group, p)
                        /\ RecordedSource(parse_data[IdOf(inner)], field)
                               = SourceAt(group, p)

\* a deep unit that is the last of the wanted field is the one extract_data
\* takes the row of the group from
ExtractDeepUnits ==
    \A g \in ExtractVisited :
        LET group == target_groups[g]
        IN  \A p \in DeepPlaces(group, WantedField) :
                IsLastOfField(group, WantedField, p) =>
                    \E r \in Range(extract_results) :
                        r.group = g /\ RowSource(r) = SourceAt(group, p)

\* C26: the recursion into a direct child group that is not a _SubPos group is
\* unrestricted: units inside deeper _SubPos groups and inside nested
\* qualifying groups are effective children of the outer group, and the _Name
\* and _Desc_0 units of a nested qualifying group are resolved into the entries
\* of both groups, replacing the values of the enclosing group when they come
\* later in document order.
C26_UnrestrictedRecursion == ParseDeepUnits /\ ParseBothEntries /\ ExtractDeepUnits

\* a snapshot of a group with its own _Name unit followed by a child group
\* that holds a qualifying group with a _Name unit: the inner name replaces the
\* outer one and stands in both entries
C26_Witness ==
    /\ prog = "parse_xlf_file" /\ pc = "done"
    /\ input_file.marker = "guid"
    /\ input_file.parts = <<"name", "inner">>
    /\ parse_data[<<"1">>].name_source = <<"i", "2">>
    /\ parse_data[<<"1", ".1">>].name_source = <<"i", "2">>

-----------------------------------------------------------------------------
(* Properties of the shortcut map of sort_comparisons (SpecSort)           *)

\* the characters new labels are bound to, in the order they are taken
ShortcutList == <<"e", "r", "t", "y", "u", "i", "o", "p", "[", "]", "\\">>

\* the shortcuts bound now, and those bound by the step
Shortcuts == DOMAIN group_chars

NewShortcuts == (DOMAIN group_chars') \ (DOMAIN group_chars)

\* the places of ShortcutList that are still free
FreePlaces == {j \in 1..Len(ShortcutList) : ShortcutList[j] \notin Shortcuts}

\* the session has its shortcut map
SessionRuns == prog = "sort_comparisons" /\ pc \notin {"start", "exit1"}

\* the step leaves the session at the prompt of the same row, nothing assigned
RowPromptedAgain ==
    /\ pc' \in {"prompt", "exit0"}
    /\ row_index' = row_index
    /\ row_groups' = row_groups
    /\ rows_processed' = rows_processed

\* C27: a new label is bound to the first character of e, r, t, y, u, i, o, p,
\* [, ], \ that is not yet a shortcut; a binding is never changed or removed;
\* at most 11 new labels are created; and once all 11 characters are bound, a
\* request for a new label binds nothing and the row is prompted again.
C27_Allocation ==
    [][SessionRuns =>
          /\ \A c \in Shortcuts :
                 c \in DOMAIN group_chars' /\ group_chars'[c] = group_chars[c]
          /\ \A c \in NewShortcuts :
                 /\ NewShortcuts = {c}
                 /\ \E j \in FreePlaces :
                        c = ShortcutList[j] /\ \A m \in FreePlaces : j <= m
          /\ Cardinality(DOMAIN group_chars' \ DOMAIN DefaultGroupChars)
                 <= Len(ShortcutList)
          /\ (pc = "name" /\ FreePlaces = {}) =>
                 (group_chars' = group_chars /\ RowPromptedAgain)]_vars

\* all eleven characters are bound and the operator has asked for one more label
C27_Witness ==
    /\ prog = "sort_comparisons"
    /\ pc = "name"
    /\ FreePlaces = {}
    /\ Cardinality(Shortcuts) = 25

\* the first free character of ShortcutList
FirstFree == ShortcutList[CHOOSE j \in FreePlaces : \A m \in FreePlaces : j <= m]

\* the step answers the name prompt for a line that holds, besides the
\* backtick, a character that is no shortcut even after the step
RejectedCreation ==
    /\ pc = "name"
    /\ pc' # "exit0"
    /\ \E c \in Range(choice) : c # Backtick /\ c \notin DOMAIN group_chars'

\* the step rejects a line without backtick
RejectedPlainLine ==
    /\ pc = "prompt"
    /\ pc' = "prompt"
    /\ row_index' = row_index
    /\ Backtick \notin Range(choice')

\* C28: a label created through the backtick stays bound when the same line is
\* then rejected for other invalid characters: the row is prompted again with
\* no label assigned, and the new shortcut is in the map for this and all later
\* rows; a line rejected without a backtick leaves the map unchanged.
C28_RejectedLines ==
    [][SessionRuns =>
          /\ RejectedCreation =>
                 /\ RowPromptedAgain
                 /\ (new_group' # <<>> /\ FreePlaces # {}) =>
                        /\ FirstFree \in DOMAIN group_chars'
                        /\ group_chars'[FirstFree] = new_group'
          /\ \A c \in Shortcuts :
                 c \in DOMAIN group_chars' /\ group_chars'[c] = group_chars[c]
          /\ RejectedPlainLine =>
                 (group_chars' = group_chars /\ row_groups' = row_groups)]_vars

\* a line with a backtick and an invalid character was rejected on the second
\* row: the label is bound to 'e', and the row has no label
C28_Witness ==
    /\ prog = "sort_comparisons"
    /\ pc = "prompt"
    /\ row_index = 1
    /\ choice = <<"e", "z">>
    /\ new_group = <<"new">>
    /\ "e" \in Shortcuts
    /\ group_chars["e"] = <<"new">>
    /\ row_index \notin ConfirmedRows

-----------------------------------------------------------------------------
(* Properties of units without elements or without text (SpecIdent)        *)

\* source and target are both there and both without text
BothEmpty(u) == HasBoth(u) /\ u.source.text = <<>> /\ u.target.text = <<>>

\* C29: find_identical_translations gives no record for a unit that lacks its
\* source or its target element, whatever its approved and translate flags;
\* for a unit with both elements and no text in either, the two exact-identity
\* rules give a record whose only matched piece is the empty string, and the
\* comma-split rule gives no record.
C29_MissingAndEmpty ==
    \A p \in Visited :
        LET u == trans_units[p]
        IN  /\ ~HasBoth(u) => RecordsOf(p) = <<>>
            /\ (BothEmpty(u) /\ ~Excluded(u)) =>
                   /\ (IsApproved(u) /\ ~IsSuppressed(u)) => RecordsOf(p) = <<>>
                   /\ (IsApproved(u) <=> IsSuppressed(u)) =>
                          /\ Len(RecordsOf(p)) = 1
                          /\ RecordsOf(p)[1].matching_pieces = << <<>> >>

\* a finished scan that visited a unit without target, a unit without source,
\* an approved unit with both texts empty, and a unit with both texts empty
\* that was recorded with the empty piece
C29_Witness ==
    /\ pc = "returned"
    /\ \E p \in Visited :
           trans_units[p].source.present /\ ~trans_units[p].target.present
    /\ \E p \in Visited :
           ~trans_units[p].source.present /\ trans_units[p].target.present
    /\ \E p \in Visited :
           /\ BothEmpty(trans_units[p]) /\ ~Excluded(trans_units[p])
           /\ IsApproved(trans_units[p]) /\ ~IsSuppressed(trans_units[p])
    /\ \E r \in Range(results) :
           BothEmpty(trans_units[r.pos]) /\ r.matching_pieces = << <<>> >>

====
